---- MODULE Spec2Model ----
(***************************************************************************)
(* Stream lifecycle and concurrent execution of phantom820/streams.        *)
(*                                                                         *)
(* Three stream implementations of the repository are modelled side by     *)
(* side, told apart by the "kind" field of a stream record:                *)
(*   "stream"            src/stream.go (supplier, operations slice,        *)
(*                       Parallelize)                                      *)
(*   "sequentialStream"  src/sequential_stream.go lines 1-200              *)
(*   "concurrentStream"  src/unnamed/part_013 (closure pipeline, scatter)  *)
(*                                                                         *)
(* Spec      the lifecycle state machine: construction, derivation,        *)
(*           Parallelize and terminal operations on a heap of streams.     *)
(* SpecAlias the same handlers restricted to stream.go streams, deep       *)
(*           enough for the operations slice to have spare capacity.       *)
(* SpecConc  one concurrent terminal operation, worker steps interleaved   *)
(*           at the granularity of lock / load / store / unlock.           *)
(* SpecSeq     one sequential terminal operation, element by element, on   *)
(*             the slice engine (stream.go) and on the pull engine         *)
(*             (sequential_stream.go lines 202-551).                       *)
(* SpecScatter one terminal operation of scatter.go: the coordinator's     *)
(*             drain loop, the workers, the hand-off and the return.       *)
(* SpecPar     parallelCount and parallelReduce of terminal_operator.go.   *)
(* SpecPart    the three partitioning routines as functions of the         *)
(*             source length, and Count() over their partitions.           *)
(* SpecSort    the optimizer of the operator package (Sort) applied to a   *)
(*             chain, and Collect() through the sorted chain.              *)
(* SpecEach    ForEach, Collect, Count and Reduce of a parallel stream of  *)
(*             stream.go, one step per element, with the log of the calls  *)
(*             each operator received.                                     *)
(* SpecConfig  construction of a concurrent stream with each configuration *)
(*             (src/unnamed/part_003), then derivation and termination.    *)
(* SpecSource  the slice source of src/sources/sources.go: HasNext, Next   *)
(*             and edits of the backing slice.                             *)
(* SpecPull    a terminal operation of the pull engine over an endless     *)
(*             source, stopped by the completed() of a Limit.              *)
(* SpecNest    Collect() of src/concurrent_stream.go: one goroutine per    *)
(*             partition, the mutex of a stateful operator held around     *)
(*             the call of the closure it was derived from.                *)
(* SpecConcFair, SpecScatterFair, SpecPullFair and SpecNestFair add weak   *)
(* fairness of the goroutines.                                             *)
(***************************************************************************)
EXTENDS Integers, Sequences, FiniteSets, TLC

\* ------------------------------------------------------------------ bounds
MaxStreams == 3

\* Streams in the heap of the slice-sharing machine (SpecAlias).
MaxAliasStreams == 7

\* Parallelize calls that succeed in the slice-sharing machine.
MaxAliasParallel == 1

\* Longest source tried in the concurrent machine.
MaxLen == 3

\* --------------------------------------------------------------- constants
Kinds == {"stream", "sequentialStream", "concurrentStream"}

IntermediateOps == {"Filter", "Map", "Limit", "Skip", "Distinct", "Peek"}

TerminalOps == {"ForEach", "Count", "Reduce", "Collect"}

\* Arguments tried for Limit(n) / Skip(n) in the lifecycle machine.
CountArgs == {-1, 1}

\* Arguments tried for Parallelize(n).
ParallelizeArgs == {1, 2}

VARIABLES
    streams,   \* heap of stream objects; the index is the object's identity
    mem,       \* heap of backing arrays of operator slices
    last,      \* the most recent call: operation, receiver, outcome
    run,       \* the concurrent terminal operation in progress: data, chunks
    wk,        \* per worker: program counter and locals
    mutex,     \* per operator of the pipeline: the worker holding its mutex
    counter,   \* per operator: the counter of a Limit / Skip
    seen,      \* per operator: the membership set of a Distinct
    slots,     \* admission slots taken in the limiter channel
    results,   \* what the coordinator has gathered so far
    reached,   \* per operator: source positions whose element reached it
    accepted,  \* per operator: source positions whose element it kept
    crashed    \* the runtime aborted the process

lifeVars == <<streams, mem, last>>

concVars == <<run, wk, mutex, counter, seen, slots, results, reached, accepted, crashed>>

vars == <<lifeVars, concVars>>

\* ------------------------------------------------------------ operator type
\* operator[T] / IntermediateOperator[T].  "sync" tells whether apply takes a
\* mutex, "ident" whether a Distinct was built as the identity, "fn" names
\* the function the caller passed (predicate, transformation, action or
\* equality/hash pair), "by" is the stream whose derivation created this
\* operator instance (its identity).
NoOperator == [name |-> "none", n |-> 0, sync |-> FALSE, ident |-> FALSE, fn |-> "none", by |-> 0]

NilSlice == [arr |-> 0, len |-> 0, cap |-> 0]

\* ------------------------------------------------------------- Go slices
\* The visible elements of a slice header.
SliceElems(m, sl) ==
    IF sl.len = 0 THEN <<>> ELSE SubSeq(m[sl.arr], 1, sl.len)

\* Capacity chosen by append when the backing array is full (one element is
\* appended to a small slice: 0 -> 1, otherwise doubled).
GrowCap(cap) == IF cap = 0 THEN 1 ELSE 2 * cap

\* append(sl, x): the new slice header.
AppendSlice(m, sl, x) ==
    IF sl.len < sl.cap
    THEN [arr |-> sl.arr, len |-> sl.len + 1, cap |-> sl.cap]
    ELSE [arr |-> Len(m) + 1, len |-> sl.len + 1, cap |-> GrowCap(sl.cap)]

\* append(sl, x): the heap of backing arrays after the call.  With spare
\* capacity the element is stored in place, in the array the receiver's
\* header points to; otherwise the elements are copied to a fresh array.
AppendMem(m, sl, x) ==
    IF sl.len < sl.cap
    THEN [m EXCEPT ![sl.arr][sl.len + 1] = x]
    ELSE Append(m, [i \in 1..GrowCap(sl.cap) |->
                      IF i <= sl.len THEN m[sl.arr][i]
                      ELSE IF i = sl.len + 1 THEN x
                      ELSE NoOperator])

\* ------------------------------------------------------- operator builders
StatefulOps == {"Limit", "Skip", "Distinct"}

\* Whether the operator built for a stream of this kind guards its state
\* with a mutex: stream.go passes s.parallel as multipleRoutineAccess,
\* sequentialStream uses the plain operators, concurrentStream closures
\* always lock.  A Distinct built for an already distinct stream is the
\* identity and touches neither lock nor set.
OperatorSync(kind, op, parallel, alreadyDistinct) ==
    /\ op \in StatefulOps
    /\ ~(op = "Distinct" /\ alreadyDistinct)
    /\ CASE kind = "stream" -> parallel
         [] kind = "sequentialStream" -> FALSE
         [] kind = "concurrentStream" -> TRUE

\* The operator instance one intermediate operation creates.
NewOperator(kind, op, n, fn, parallel, alreadyDistinct, id) ==
    [name  |-> op,
     n     |-> IF op \in {"Limit", "Skip"} THEN n ELSE 0,
     sync  |-> OperatorSync(kind, op, parallel, alreadyDistinct),
     ident |-> (op = "Distinct" /\ alreadyDistinct),
     fn    |-> fn,
     by    |-> id]

\* ------------------------------------------------------------ stream type
NoStream ==
    [kind |-> "none", supplier |-> 0, ops |-> NilSlice, pipeline |-> <<>>,
     parallel |-> FALSE, maxRoutines |-> 0, partitionSize |-> 0,
     distinct |-> FALSE, terminated |-> FALSE, closed |-> FALSE, parent |-> 0]

\* New(supplier) of stream.go; the zero-valued sequentialStream over data;
\* ConcurrentFromSlice(f, concurrency, partitionSize).  "maxRoutines" holds
\* the concurrency of a concurrentStream.
NewStream(kind, supplier, concurrency, partitionSize) ==
    [NoStream EXCEPT
        !.kind = kind,
        !.supplier = supplier,
        !.parallel = (kind = "concurrentStream"),
        !.maxRoutines = IF kind = "concurrentStream" THEN concurrency ELSE 0,
        !.partitionSize = IF kind = "concurrentStream" THEN partitionSize ELSE 0]

\* valid() without its Closed() branch.
ValidIgnoresClosed(s) ==
    IF s.terminated THEN "StreamTerminated" ELSE "ok"

\* valid(): the error a call on this stream panics with, "ok" when none.
Valid(s) ==
    IF s.terminated THEN "StreamTerminated"
    ELSE IF s.closed THEN "StreamClosed"
    ELSE "ok"

\* A check of the count that only Skip has.
IllegalCountSkipOnly(kind, op, n) ==
    /\ n < 0
    /\ op = "Skip" /\ kind # "stream"

\* The n < 0 check of Limit (all kinds) and Skip (not in stream.go).
IllegalCount(kind, op, n) ==
    /\ n < 0
    /\ \/ op = "Limit"
       \/ op = "Skip" /\ kind # "stream"

\* The distinct provenance flag of a derived stream: stream.go copies the
\* parent's flag in new() for every operation and sets it after Distinct;
\* the other two kinds clear it in Map and set it in Distinct.
ChildDistinct(kind, op, parentDistinct) ==
    IF op = "Distinct" THEN TRUE
    ELSE IF op = "Map" /\ kind # "stream" THEN FALSE
    ELSE parentDistinct

\* The visible pipeline of a stream: the elements of its operator slice, or
\* the chain of closures of a concurrentStream.
Pipeline(m, s) ==
    IF s.kind = "concurrentStream" THEN s.pipeline ELSE SliceElems(m, s.ops)

\* The stream an intermediate operation returns.
Child(m, s, recv, operator) ==
    [kind          |-> s.kind,
     supplier      |-> s.supplier,
     ops           |-> IF s.kind = "concurrentStream" THEN NilSlice
                       ELSE AppendSlice(m, s.ops, operator),
     pipeline      |-> IF s.kind = "concurrentStream"
                       THEN Append(s.pipeline, operator) ELSE <<>>,
     parallel      |-> s.parallel,
     maxRoutines   |-> s.maxRoutines,
     partitionSize |-> s.partitionSize,
     distinct      |-> ChildDistinct(s.kind, operator.name, s.distinct),
     terminated    |-> FALSE,
     closed        |-> FALSE,
     parent        |-> recv]

\* close() that sets the flag of terminate() as well.
CloseAlsoTerminates(s) ==
    [s EXCEPT !.closed = TRUE, !.terminated = TRUE]

\* close(): sequentialStream also drops its operator slice.
Close(s) ==
    IF s.kind = "sequentialStream"
    THEN [s EXCEPT !.closed = TRUE, !.ops = NilSlice]
    ELSE [s EXCEPT !.closed = TRUE]

\* terminate() that only closes.
TerminateOnlyCloses(s) ==
    [s EXCEPT !.closed = TRUE]

\* terminate() that forgets to close.
TerminateNotClosed(s) ==
    [s EXCEPT !.terminated = TRUE]

\* terminate(): sequentialStream also drops its operator slice.
Terminate(s) ==
    IF s.kind = "sequentialStream"
    THEN [s EXCEPT !.terminated = TRUE, !.closed = TRUE, !.ops = NilSlice]
    ELSE [s EXCEPT !.terminated = TRUE, !.closed = TRUE]

\* The record of a call kept in "last".
Call(op, recv, n, result, ret, pre) ==
    [op |-> op, recv |-> recv, n |-> n, result |-> result, ret |-> ret, pre |-> pre]

\* ------------------------------------------------------ lifecycle actions
\* A derivation that closes the receiver before it checks the count.
DeriveClosingFirst(recv, op, n, fn) ==
    LET s  == streams[recv]
        id == Len(streams) + 1
        operator == NewOperator(s.kind, op, n, fn, s.parallel, s.distinct, id)
    IN  IF Valid(s) # "ok"
        THEN /\ last' = Call(op, recv, n, Valid(s), 0, s)
             /\ UNCHANGED <<streams, mem>>
        ELSE IF IllegalCount(s.kind, op, n)
        THEN /\ last' = Call(op, recv, n, "IllegalArgument", 0, s)
             /\ streams' = [streams EXCEPT ![recv] = Close(s)]
             /\ UNCHANGED mem
        ELSE /\ streams' = Append([streams EXCEPT ![recv] = Close(s)],
                                  Child(mem, s, recv, operator))
             /\ mem' = IF s.kind = "concurrentStream" THEN mem
                       ELSE AppendMem(mem, s.ops, operator)
             /\ last' = Call(op, recv, n, "ok", id, s)

\* Filter / Map / Limit / Skip / Distinct / Peek on stream recv.
Derive(recv, op, n, fn) ==
    LET s  == streams[recv]
        id == Len(streams) + 1
        operator == NewOperator(s.kind, op, n, fn, s.parallel, s.distinct, id)
    IN  IF Valid(s) # "ok"
        THEN /\ last' = Call(op, recv, n, Valid(s), 0, s)
             /\ UNCHANGED <<streams, mem>>
        ELSE IF IllegalCount(s.kind, op, n)
        THEN /\ last' = Call(op, recv, n, "IllegalArgument", 0, s)
             /\ UNCHANGED <<streams, mem>>
        ELSE /\ streams' = Append([streams EXCEPT ![recv] = Close(s)],
                                  Child(mem, s, recv, operator))
             /\ mem' = IF s.kind = "concurrentStream" THEN mem
                       ELSE AppendMem(mem, s.ops, operator)
             /\ last' = Call(op, recv, n, "ok", id, s)

\* The stream Parallelize(n) returns: the supplier and the operations slice
\* header of the receiver, parallel, every other field zero.
ParallelStream(s, recv, n) ==
    [NoStream EXCEPT !.kind = "stream",
                     !.supplier = s.supplier,
                     !.ops = s.ops,
                     !.parallel = TRUE,
                     !.maxRoutines = n,
                     !.parent = recv]

\* Parallelize(n) of stream.go: no valid() check, the receiver is not closed
\* and the operations slice header is shared with the new stream.
Parallelize(recv, n) ==
    LET s  == streams[recv]
        id == Len(streams) + 1
    IN  /\ s.kind = "stream"
        /\ IF n <= 1
           THEN /\ last' = Call("Parallelize", recv, n, "IllegalConfig", 0, s)
                /\ UNCHANGED <<streams, mem>>
           ELSE /\ streams' = Append(streams, ParallelStream(s, recv, n))
                /\ last' = Call("Parallelize", recv, n, "ok", id, s)
                /\ UNCHANGED mem

\* ForEach / Count / Reduce / Collect on stream recv: validate, run the
\* engine, terminate.  The elements the engine produces are not part of the
\* lifecycle state.
Terminal(recv, op) ==
    LET s == streams[recv]
    IN  IF Valid(s) # "ok"
        THEN /\ last' = Call(op, recv, 0, Valid(s), 0, s)
             /\ UNCHANGED <<streams, mem>>
        ELSE /\ streams' = [streams EXCEPT ![recv] = Terminate(s)]
             /\ last' = Call(op, recv, 0, "ok", 0, s)
             /\ UNCHANGED mem

\* The function handed to an operation in the lifecycle machine.
DefaultFn(op) ==
    CASE op = "Filter" -> "even"
      [] op = "Map" -> "half"
      [] op = "Distinct" -> "id"
      [] op = "Peek" -> "log"
      [] OTHER -> "none"

DeriveStep ==
    \E recv \in 1..Len(streams), op \in IntermediateOps :
        \E n \in (IF op \in {"Limit", "Skip"} THEN CountArgs ELSE {0}) :
            /\ Derive(recv, op, n, DefaultFn(op))
            /\ Len(streams') <= MaxStreams

ParallelizeStep ==
    \E recv \in 1..Len(streams), n \in ParallelizeArgs :
        /\ Parallelize(recv, n)
        /\ Len(streams') <= MaxStreams

TerminalStep ==
    \E recv \in 1..Len(streams), op \in TerminalOps : Terminal(recv, op)

\* No concurrent terminal operation is in progress.
NoRun ==
    /\ run = [data |-> <<>>, chunks |-> <<>>, limit |-> 0]
    /\ wk = <<>>
    /\ mutex = <<>>
    /\ counter = <<>>
    /\ seen = <<>>
    /\ slots = 0
    /\ results = <<>>
    /\ reached = <<>>
    /\ accepted = <<>>
    /\ crashed = FALSE

LifeInit ==
    /\ \E kind \in Kinds : streams = <<NewStream(kind, 1, 2, 1)>>
    /\ mem = <<>>
    /\ last = Call("New", 0, 0, "ok", 1, NoStream)
    /\ NoRun

LifeNext ==
    \/ DeriveStep /\ UNCHANGED concVars
    \/ ParallelizeStep /\ UNCHANGED concVars
    \/ TerminalStep /\ UNCHANGED concVars

Spec == LifeInit /\ [][LifeNext]_vars

\* ------------------------------------------- the slice-sharing machine
\* The same handlers on a stream.go stream, with the operations drawn from
\* a smaller alphabet so that pipelines long enough to leave spare capacity
\* in their backing array (three operators, capacity four) are reached.
AliasOps == {"Filter", "Map"}

AliasDerive ==
    \E recv \in 1..Len(streams), op \in AliasOps :
        /\ Derive(recv, op, 0, DefaultFn(op))
        /\ Len(streams') <= MaxAliasStreams

\* Streams made by Parallelize: a header of stream.go is never rewritten, and
\* only Parallelize hands on a pipeline of unchanged length.
ByParallelize ==
    {i \in 1..Len(streams) :
        /\ streams[i].parent # 0
        /\ streams[i].ops.len = streams[streams[i].parent].ops.len}

AliasParallelize ==
    \E recv \in 1..Len(streams) :
        /\ Cardinality(ByParallelize) < MaxAliasParallel
        /\ Parallelize(recv, 2)
        /\ Len(streams') <= MaxAliasStreams

AliasCollect ==
    \E recv \in 1..Len(streams) : Terminal(recv, "Collect")

AliasInit ==
    /\ streams = <<NewStream("stream", 1, 0, 0)>>
    /\ mem = <<>>
    /\ last = Call("New", 0, 0, "ok", 1, NoStream)
    /\ NoRun

AliasNext ==
    \/ AliasDerive /\ UNCHANGED concVars
    \/ AliasParallelize /\ UNCHANGED concVars
    \/ AliasCollect /\ UNCHANGED concVars

SpecAlias == AliasInit /\ [][AliasNext]_vars

\* =================================================== concurrent execution
\* One Collect() on a parallel stream: the coordinator has drained the
\* source into data and cut it into chunks, one worker per chunk applies the
\* shared pipeline to the elements of its chunk, and the partial results are
\* handed to the coordinator.

\* Filter predicates.
Pred(fn, x) ==
    CASE fn = "even" -> x % 2 = 0
      [] fn = "big" -> x > 1
      [] OTHER -> TRUE

\* Map transformations.
Fun(fn, x) ==
    CASE fn = "half" -> x \div 2
      [] OTHER -> x

\* The value a Distinct compares, for the equality/hash pair it was given:
\* "id" tells all values apart, "mod2" identifies values of equal parity.
ClassOf(fn, x) ==
    CASE fn = "mod2" -> x % 2
      [] OTHER -> x

\* Operators declared stateful: Limit, Skip and Distinct.  A worker's
\* application of one is followed step by step.
HasState(operator) ==
    operator.name \in StatefulOps

\* The application of one stateless operator.
ApplyStateless(operator, x) ==
    CASE operator.name = "Filter" -> [x |-> x, keep |-> Pred(operator.fn, x)]
      [] operator.name = "Map" -> [x |-> Fun(operator.fn, x), keep |-> TRUE]
      [] OTHER -> [x |-> x, keep |-> TRUE]

\* applyOperations / the nested pipeline closures from operator k on, up to
\* the next operator with state: where the element stops, its value there
\* and whether it is still kept.  stage = Len(p) + 1 means it survived the
\* whole pipeline.
RECURSIVE Advance(_, _, _)
Advance(p, k, x) ==
    IF k > Len(p) THEN [stage |-> k, x |-> x, keep |-> TRUE]
    ELSE IF HasState(p[k]) THEN [stage |-> k, x |-> x, keep |-> TRUE]
    ELSE LET r == ApplyStateless(p[k], x)
         IN  IF r.keep THEN Advance(p, k + 1, r.x)
             ELSE [stage |-> k, x |-> r.x, keep |-> FALSE]

\* The positions a..b as a sequence.
Range(a, b) == [j \in 1..(b - a + 1) |-> a + j - 1]

\* scatterGather's partitions of a source of length L: full partitions of
\* partitionSize elements and a last one with the rest.
ScatterChunks(L, partitionSize) ==
    LET count == (L + partitionSize - 1) \div partitionSize
    IN  [k \in 1..count |->
            Range((k - 1) * partitionSize + 1,
                  IF k * partitionSize < L THEN k * partitionSize ELSE L)]

\* The boundaries i * (n / k) without the closing boundary n.
SubIntervalsOpenEnded(n, k) ==
    IF n = 0 THEN <<>>
    ELSE [i \in 1..k |-> (i - 1) * (n \div k)]

\* subIntervals(n, numberOfSubIntervals): the boundaries i * (n / k) and n.
SubIntervals(n, k) ==
    IF n = 0 THEN <<>>
    ELSE [i \in 1..(k + 1) |-> IF i <= k THEN (i - 1) * (n \div k) ELSE n]

\* parallelCollect's partitions data[subIntervals[i]:subIntervals[i+1]].
IntervalChunks(n, k) ==
    LET b == SubIntervals(n, k)
    IN  IF b = <<>> THEN <<>>
        ELSE [i \in 1..(Len(b) - 1) |-> Range(b[i] + 1, b[i + 1])]


\* ----------------------------------------------------- the stream to run
\* A program is the chain of calls that builds the stream: steps
\* [op, n, fn], op an intermediate operation or "Parallelize".
Step(op, n, fn) == [op |-> op, n |-> n, fn |-> fn]

\* The stream (and the heap of backing arrays) the chain prog[i..] builds
\* from stream s; the operator made by step i carries i + 1 as its identity.
RECURSIVE Build(_, _, _, _)
Build(prog, i, m, s) ==
    IF i > Len(prog) THEN [mem |-> m, stream |-> s]
    ELSE IF prog[i].op = "Parallelize"
    THEN Build(prog, i + 1, m, ParallelStream(s, 0, prog[i].n))
    ELSE LET operator == NewOperator(s.kind, prog[i].op, prog[i].n, prog[i].fn,
                                     s.parallel, s.distinct, i + 1)
         IN  Build(prog, i + 1,
                   IF s.kind = "concurrentStream" THEN m
                   ELSE AppendMem(m, s.ops, operator),
                   Child(m, s, 0, operator))

\* Limit / Skip counts, concurrency levels and partition sizes tried.
ConcCounts == {0, 1, 2}

ConcurrencyArgs == {1, 2}

PartitionSizes == {1, 2}

StatefulSteps ==
    {Step(op, n, "none") : op \in {"Limit", "Skip"}, n \in ConcCounts}
        \cup {Step("Distinct", 0, fn) : fn \in {"id", "mod2"}}

\* Chains run on a concurrentStream: a stateful operator, alone or behind a
\* Filter, and two Distincts with different equalities.
ConcPrograms ==
    {<<s>> : s \in StatefulSteps}
        \cup {<<Step("Filter", 0, "even"), s>> : s \in StatefulSteps}
        \cup {<<Step("Distinct", 0, "id"), Step("Distinct", 0, "mod2")>>}

\* Chains run on a stream.go stream: a stateful operator derived after, or
\* before, the stream was made parallel.
StreamPrograms ==
    {<<Step("Parallelize", 2, "none"), s>> : s \in StatefulSteps}
        \cup {<<s, Step("Parallelize", 2, "none")>> : s \in StatefulSteps}

\* Sources: 1, 2, 3, ... and 1, 1, 2, 2, 3, ... cut at every length.
Sources ==
    {[i \in 1..L |-> i] : L \in 0..MaxLen}
        \cup {[i \in 1..L |-> (i + 1) \div 2] : L \in 0..MaxLen}

\* ------------------------------------------------------------- the workers
Tip == streams[1]

RunPipeline == Pipeline(mem, Tip)

Workers == 1..Len(run.chunks)

\* The source position worker w is at.
Pos(w) == run.chunks[w][wk[w].idx]

\* The comparison with <= in place of <.
BelowOrAtCount(c, n) == c <= n

\* The comparison made against the counter after the increment.
BelowNextCount(c, n) == c + 1 < n

\* Limit keeps while its counter is below n; Skip rejects while its counter
\* is below n.
BelowCount(c, n) == c < n

\* The element of worker w arrives at the place r that Advance computed: it
\* was dropped, it survived the pipeline, or it stands before a stateful
\* operator.
Land(w, r) ==
    IF ~r.keep
    THEN /\ wk' = [wk EXCEPT ![w].idx = @ + 1, ![w].pc = "next"]
         /\ UNCHANGED reached
    ELSE IF r.stage > Len(RunPipeline)
    THEN /\ wk' = [wk EXCEPT ![w].idx = @ + 1, ![w].pc = "next",
                             ![w].out = Append(@, r.x)]
         /\ UNCHANGED reached
    ELSE /\ wk' = [wk EXCEPT ![w].stage = r.stage, ![w].cur = r.x,
                             ![w].pc = IF RunPipeline[r.stage].sync
                                       THEN "lock" ELSE "load"]
         /\ reached' = [reached EXCEPT ![r.stage] = @ \cup {Pos(w)}]

\* A worker that starts on its partition without waiting for a slot.
AdmitUnbounded(w) ==
    /\ wk[w].pc = "admit"
    /\ slots' = slots + 1
    /\ wk' = [wk EXCEPT ![w].pc = "next"]
    /\ UNCHANGED <<lifeVars, run, mutex, counter, seen, results, reached, accepted, crashed>>

\* limiter <- struct{}{}: a worker of scatterGather takes an admission slot.
Admit(w) ==
    /\ wk[w].pc = "admit"
    /\ slots < run.limit
    /\ slots' = slots + 1
    /\ wk' = [wk EXCEPT ![w].pc = "next"]
    /\ UNCHANGED <<lifeVars, run, mutex, counter, seen, results, reached, accepted, crashed>>

\* The loop over the partition: the next element enters the pipeline, or
\* the partition is finished.
NextElement(w) ==
    /\ wk[w].pc = "next"
    /\ IF wk[w].idx > Len(run.chunks[w])
       THEN /\ wk' = [wk EXCEPT ![w].pc = "send"]
            /\ UNCHANGED reached
       ELSE Land(w, Advance(RunPipeline, 1, run.data[Pos(w)]))
    /\ UNCHANGED <<lifeVars, run, mutex, counter, seen, slots, results, accepted, crashed>>

\* mutex.Lock() of a synchronized operator.
Lock(w) ==
    /\ wk[w].pc = "lock"
    /\ mutex[wk[w].stage] = 0
    /\ mutex' = [mutex EXCEPT ![wk[w].stage] = w]
    /\ wk' = [wk EXCEPT ![w].pc = "load"]
    /\ UNCHANGED <<lifeVars, run, counter, seen, slots, results, reached, accepted, crashed>>

\* The test of the operator's state: counter against n, membership in the
\* set; a Distinct built as the identity keeps the element untested.
Load(w) ==
    LET k  == wk[w].stage
        op == RunPipeline[k]
    IN  /\ wk[w].pc = "load"
        /\ wk' = [wk EXCEPT
              ![w].keep =
                  CASE op.name = "Limit" -> BelowCount(counter[k], op.n)
                    [] op.name = "Skip" -> ~BelowCount(counter[k], op.n)
                    [] op.name = "Distinct" ->
                          op.ident \/ ClassOf(op.fn, wk[w].cur) \notin seen[k],
              ![w].pc =
                  CASE op.name = "Limit" ->
                          IF BelowCount(counter[k], op.n) THEN "inc" ELSE "leave"
                    [] op.name = "Skip" ->
                          IF BelowCount(counter[k], op.n) THEN "inc" ELSE "leave"
                    [] op.name = "Distinct" ->
                          IF ~op.ident /\ ClassOf(op.fn, wk[w].cur) \notin seen[k]
                          THEN "store" ELSE "leave"]
        /\ UNCHANGED <<lifeVars, run, mutex, counter, seen, slots, results, reached, accepted, crashed>>

\* counter++ reads the counter ...
Inc(w) ==
    /\ wk[w].pc = "inc"
    /\ wk' = [wk EXCEPT ![w].tmp = counter[wk[w].stage], ![w].pc = "store"]
    /\ UNCHANGED <<lifeVars, run, mutex, counter, seen, slots, results, reached, accepted, crashed>>

\* ... and writes it back incremented; a Distinct inserts into its set.
Store(w) ==
    LET k  == wk[w].stage
        op == RunPipeline[k]
    IN  /\ wk[w].pc = "store"
        /\ IF op.name = "Distinct"
           THEN /\ seen' = [seen EXCEPT ![k] = @ \cup {ClassOf(op.fn, wk[w].cur)}]
                /\ UNCHANGED counter
           ELSE /\ counter' = [counter EXCEPT ![k] = wk[w].tmp + 1]
                /\ UNCHANGED seen
        /\ wk' = [wk EXCEPT ![w].pc = "leave"]
        /\ UNCHANGED <<lifeVars, run, mutex, slots, results, reached, accepted, crashed>>

\* The operator returns (the deferred Unlock runs): a kept element goes on
\* to the operators behind it, a rejected one is dropped.
Leave(w) ==
    LET k  == wk[w].stage
        op == RunPipeline[k]
    IN  /\ wk[w].pc = "leave"
        /\ mutex' = IF op.sync THEN [mutex EXCEPT ![k] = 0] ELSE mutex
        /\ IF wk[w].keep
           THEN /\ accepted' = [accepted EXCEPT ![k] = @ \cup {Pos(w)}]
                /\ Land(w, Advance(RunPipeline, k + 1, wk[w].cur))
           ELSE /\ Land(w, [stage |-> k, x |-> wk[w].cur, keep |-> FALSE])
                /\ UNCHANGED accepted
        /\ UNCHANGED <<lifeVars, run, counter, seen, slots, results, crashed>>

\* channel <- partitionResults, received by the coordinator's gather loop.
Send(w) ==
    /\ wk[w].pc = "send"
    /\ results' = results \o wk[w].out
    /\ wk' = [wk EXCEPT ![w].pc = IF run.limit > 0 THEN "release" ELSE "done"]
    /\ UNCHANGED <<lifeVars, run, mutex, counter, seen, slots, reached, accepted, crashed>>

\* <-limiter: the admission slot is given back.
Release(w) ==
    /\ wk[w].pc = "release"
    /\ slots' = slots - 1
    /\ wk' = [wk EXCEPT ![w].pc = "done"]
    /\ UNCHANGED <<lifeVars, run, mutex, counter, seen, results, reached, accepted, crashed>>

\* Two goroutines inside the assignment to an unguarded map: the Go runtime
\* may abort with "concurrent map writes".
Fatal ==
    /\ \E v, w \in Workers :
          /\ v # w
          /\ wk[v].pc = "store" /\ wk[w].pc = "store"
          /\ wk[v].stage = wk[w].stage
          /\ RunPipeline[wk[w].stage].name = "Distinct"
    /\ crashed' = TRUE
    /\ wk' = [w \in Workers |-> [wk[w] EXCEPT !.pc = "crashed"]]
    /\ UNCHANGED <<lifeVars, run, mutex, counter, seen, slots, results, reached, accepted>>

\* Collect returns what was gathered and the deferred terminate() runs.
Return ==
    /\ last.result = "running"
    /\ \A w \in Workers : wk[w].pc = "done"
    /\ streams' = [streams EXCEPT ![1] = Terminate(Tip)]
    /\ last' = [last EXCEPT !.result = "ok"]
    /\ UNCHANGED <<mem, concVars>>

\* Collect() was called on an Open parallel stream built by one of the
\* chains: the source is drained and cut, the workers are launched.
ConcInit ==
    \E prog \in ConcPrograms \cup StreamPrograms, data \in Sources,
       concurrency \in ConcurrencyArgs, partitionSize \in PartitionSizes :
        LET kind == IF prog \in ConcPrograms THEN "concurrentStream" ELSE "stream"
            b == Build(prog, 1, <<>>,
                       IF kind = "concurrentStream"
                       THEN NewStream(kind, 1, concurrency, partitionSize)
                       ELSE NewStream(kind, 1, 0, 0))
            p == Pipeline(b.mem, b.stream)
            chunks == IF kind = "concurrentStream"
                      THEN ScatterChunks(Len(data), b.stream.partitionSize)
                      ELSE IntervalChunks(Len(data), b.stream.maxRoutines)
        IN  /\ kind = "stream" => (concurrency = 1 /\ partitionSize = 1)
            /\ b.stream.parallel
            /\ streams = <<b.stream>>
            /\ mem = b.mem
            /\ last = Call("Collect", 1, 0, "running", 0, b.stream)
            /\ run = [data |-> data, chunks |-> chunks,
                      limit |-> IF kind = "concurrentStream"
                                THEN b.stream.maxRoutines ELSE 0]
            /\ wk = [w \in 1..Len(chunks) |->
                        [pc |-> IF kind = "concurrentStream" THEN "admit" ELSE "next",
                         idx |-> 1, stage |-> 0, cur |-> 0, tmp |-> 0,
                         keep |-> FALSE, out |-> <<>>]]
            /\ mutex = [k \in 1..Len(p) |-> 0]
            /\ counter = [k \in 1..Len(p) |-> 0]
            /\ seen = [k \in 1..Len(p) |-> {}]
            /\ slots = 0
            /\ results = <<>>
            /\ reached = [k \in 1..Len(p) |-> {}]
            /\ accepted = [k \in 1..Len(p) |-> {}]
            /\ crashed = FALSE

ConcNext ==
    \/ \E w \in Workers : Admit(w)
    \/ \E w \in Workers : NextElement(w)
    \/ \E w \in Workers : Lock(w)
    \/ \E w \in Workers : Load(w)
    \/ \E w \in Workers : Inc(w)
    \/ \E w \in Workers : Store(w)
    \/ \E w \in Workers : Leave(w)
    \/ \E w \in Workers : Send(w)
    \/ \E w \in Workers : Release(w)
    \/ Fatal
    \/ Return

SpecConc == ConcInit /\ [][ConcNext]_vars

\* The Go scheduler runs a goroutine that can take a step.
SpecConcFair == SpecConc /\ WF_vars(ConcNext)



\* ============================================================ the optimizer
\* operator.Sort of the operator package: the terminal operations of the
\* data-based sequentialStream run Sort(stream.intermediateOperators).

\* The declared cost of a filter and of a distinct; the other operators are
\* built without a cost and hold the zero value.
filterCost == 1

distinct_cost == 2

Cost(operator) ==
    CASE operator.name = "Filter" -> filterCost
      [] operator.name = "Distinct" -> distinct_cost
      [] OTHER -> 0

\* commutative(a, b): a filter with a distinct, in either order.
Commutative(a, b) ==
    CASE a.name = "Filter" -> b.name = "Distinct"
      [] a.name = "Distinct" -> b.name = "Filter"
      [] OTHER -> FALSE

\* An insertion that puts o in front of the operators of its own cost too.
InsertBeforeEqualCost(s, o) ==
    LET dearer == {j \in 1..Len(s) : Cost(s[j]) >= Cost(o)}
        at == IF dearer = {} THEN Len(s) + 1
              ELSE CHOOSE j \in dearer : \A h \in dearer : j <= h
    IN  SubSeq(s, 1, at - 1) \o <<o>> \o SubSeq(s, at, Len(s))

\* One insertion of a stable sort by cost: o goes in front of the first
\* operator that costs more.
InsertByCost(s, o) ==
    LET dearer == {j \in 1..Len(s) : Cost(s[j]) > Cost(o)}
        at == IF dearer = {} THEN Len(s) + 1
              ELSE CHOOSE j \in dearer : \A h \in dearer : j <= h
    IN  SubSeq(s, 1, at - 1) \o <<o>> \o SubSeq(s, at, Len(s))

\* sort.SliceStable with less(i, j) = cost(i) < cost(j).
RECURSIVE SliceStable(_)
SliceStable(s) ==
    IF s = <<>> THEN <<>>
    ELSE InsertByCost(SliceStable(SubSeq(s, 1, Len(s) - 1)), s[Len(s)])

\* sortedOperators with sortedOperators[start:end+1] sorted (indices from 0).
SortRange(sorted, start, end) ==
    SubSeq(sorted, 1, start)
        \o SliceStable(SubSeq(sorted, start + 1, end + 1))
        \o SubSeq(sorted, end + 2, Len(sorted))

\* The loop of Sort from index i (from 0) on, and the sort after it.
RECURSIVE SortLoop(_, _, _, _, _)
SortLoop(operators, sorted, i, start, end) ==
    IF i >= Len(operators) - 1
    THEN IF end > start /\ start >= 0 THEN SortRange(sorted, start, end)
         ELSE sorted
    ELSE IF Commutative(operators[i + 1], operators[i + 2])
    THEN SortLoop(operators, sorted, i + 1, IF start = -1 THEN i ELSE start, i + 1)
    ELSE IF end > start
    THEN SortLoop(operators, SortRange(sorted, start, end), i + 1, -1, -1)
    ELSE SortLoop(operators, sorted, i + 1, start, end)

Sort(operators) == SortLoop(operators, operators, 0, -1, -1)

\* ==================================================== sequential execution
\* One terminal operation on a sequential stream, element by element.  Two
\* engines: "slice" is stream.go over terminal_operator.go (the supplier's
\* slice is walked and applyOperations run on each element), "pull" is the
\* stream of sequential_stream.go lines 202-551 (the terminal operation
\* pulls through nested closures until completed() says stop).

\* Longest source tried in the sequential machine.
MaxSeqLen == 3

Engines == {"slice", "pull"}

\* Terminal operations that return a value.
ValueOps == {"Collect", "Count", "Reduce"}

\* Terminal operations run in the sequential machine.
SeqOps == ValueOps \cup {"ForEach"}

\* Binary functions passed to Reduce: both associative and commutative.
ReduceFns == {"add", "mul"}

ReduceFn(f, x, y) == IF f = "mul" THEN x * y ELSE x + y

\* The left fold of f over a non-empty sequence.
RECURSIVE LeftFold(_, _)
LeftFold(f, s) ==
    IF Len(s) = 1 THEN s[1]
    ELSE ReduceFn(f, LeftFold(f, SubSeq(s, 1, Len(s) - 1)), s[Len(s)])

\* The zero value of the element type (var x T).
ZeroValue == 0

\* apply with the membership test of Distinct inverted: an element is kept
\* when its class was met before.
ApplyOperatorSeenBefore(operator, c, set, x) ==
    CASE operator.name = "Limit" ->
            IF BelowCount(c, operator.n)
            THEN [keep |-> TRUE, x |-> x, counter |-> c + 1, seen |-> set]
            ELSE [keep |-> FALSE, x |-> x, counter |-> c, seen |-> set]
      [] operator.name = "Skip" ->
            IF BelowCount(c, operator.n)
            THEN [keep |-> FALSE, x |-> x, counter |-> c + 1, seen |-> set]
            ELSE [keep |-> TRUE, x |-> x, counter |-> c, seen |-> set]
      [] operator.name = "Distinct" ->
            IF operator.ident
            THEN [keep |-> TRUE, x |-> x, counter |-> c, seen |-> set]
            ELSE [keep |-> ClassOf(operator.fn, x) \in set, x |-> x, counter |-> c,
                  seen |-> set \cup {ClassOf(operator.fn, x)}]
      [] OTHER ->
            [keep |-> ApplyStateless(operator, x).keep,
             x |-> ApplyStateless(operator, x).x, counter |-> c, seen |-> set]

\* apply of one operator, given the counter and the set its closure holds:
\* whether the element is kept, its value, and the closure's state after.
ApplyOperator(operator, c, set, x) ==
    CASE operator.name = "Limit" ->
            IF BelowCount(c, operator.n)
            THEN [keep |-> TRUE, x |-> x, counter |-> c + 1, seen |-> set]
            ELSE [keep |-> FALSE, x |-> x, counter |-> c, seen |-> set]
      [] operator.name = "Skip" ->
            IF BelowCount(c, operator.n)
            THEN [keep |-> FALSE, x |-> x, counter |-> c + 1, seen |-> set]
            ELSE [keep |-> TRUE, x |-> x, counter |-> c, seen |-> set]
      [] operator.name = "Distinct" ->
            IF operator.ident
            THEN [keep |-> TRUE, x |-> x, counter |-> c, seen |-> set]
            ELSE IF ClassOf(operator.fn, x) \in set
            THEN [keep |-> FALSE, x |-> x, counter |-> c, seen |-> set]
            ELSE [keep |-> TRUE, x |-> x, counter |-> c,
                  seen |-> set \cup {ClassOf(operator.fn, x)}]
      [] OTHER ->
            [keep |-> ApplyStateless(operator, x).keep,
             x |-> ApplyStateless(operator, x).x, counter |-> c, seen |-> set]

\* applyOperations without the "&& ok" of its loop: the operators behind
\* the one that rejected the element are applied to it as well.
RECURSIVE ApplyOperationsThrough(_, _, _, _, _)
ApplyOperationsThrough(p, k, cs, sets, x) ==
    IF k > Len(p)
    THEN [keep |-> TRUE, x |-> x, stop |-> k, counter |-> cs, seen |-> sets]
    ELSE LET r == ApplyOperator(p[k], cs[k], sets[k], x)
             cs2 == [cs EXCEPT ![k] = r.counter]
             sets2 == [sets EXCEPT ![k] = r.seen]
             rest == ApplyOperationsThrough(p, k + 1, cs2, sets2, r.x)
         IN  IF r.keep THEN rest
             ELSE [keep |-> FALSE, x |-> r.x, stop |-> k,
                   counter |-> rest.counter, seen |-> rest.seen]

\* applyOperations run by one goroutine: the operators from stage k on are
\* applied to x in order until one rejects.  cs and sets are the counters
\* and sets of all stages; "stop" is the stage that rejected the element,
\* Len(p) + 1 when it survived.
RECURSIVE ApplyOperations(_, _, _, _, _)
ApplyOperations(p, k, cs, sets, x) ==
    IF k > Len(p)
    THEN [keep |-> TRUE, x |-> x, stop |-> k, counter |-> cs, seen |-> sets]
    ELSE LET r == ApplyOperator(p[k], cs[k], sets[k], x)
             cs2 == [cs EXCEPT ![k] = r.counter]
             sets2 == [sets EXCEPT ![k] = r.seen]
         IN  IF r.keep THEN ApplyOperations(p, k + 1, cs2, sets2, r.x)
             ELSE [keep |-> FALSE, x |-> r.x, stop |-> k,
                   counter |-> cs2, seen |-> sets2]

\* The accumulator of reduce in terminal_operator.go after the element at
\* index i (from 0): x is assigned when the element at index 0 survives,
\* otherwise a survivor is folded into whatever x holds.
SliceReduceStep(acc, f, i, ok, y) ==
    IF i = 0 /\ ok THEN [x |-> y, valid |-> TRUE, count |-> acc.count + 1]
    ELSE IF ok THEN [x |-> ReduceFn(f, acc.x, y), valid |-> acc.valid,
                     count |-> acc.count + 1]
    ELSE acc

\* The accumulator of Reduce in the pull engine: the switch on count.
PullReduceStep(acc, f, ok, y) ==
    IF ~ok THEN acc
    ELSE IF acc.count = 0 THEN [x |-> y, valid |-> TRUE, count |-> 1]
    ELSE [x |-> ReduceFn(f, acc.x, y), valid |-> TRUE, count |-> acc.count + 1]

\* The chain of closures of a pull stream: no mutex and no provenance flag.
PullPipeline(prog) ==
    [i \in 1..Len(prog) |->
        NewOperator("sequentialStream", prog[i].op, prog[i].n, prog[i].fn,
                    FALSE, FALSE, i + 1)]

\* Intermediate calls tried in the sequential machine.
SeqSteps ==
    StatefulSteps
        \cup {Step("Filter", 0, "even"), Step("Map", 0, "half"),
              Step("Peek", 0, "log")}

\* Chains of at most two intermediate calls.
SeqPrograms ==
    {<<>>} \cup {<<s>> : s \in SeqSteps}
           \cup {<<s, u>> : s \in SeqSteps, u \in SeqSteps}

SeqSources ==
    {[i \in 1..L |-> i] : L \in 0..MaxSeqLen}
        \cup {[i \in 1..L |-> (i + 1) \div 2] : L \in 0..MaxSeqLen}

\* completed(): the source is exhausted, or (pull engine) a Limit in the
\* chain has let n elements through.
Completed ==
    \/ run.idx > Len(run.data)
    \/ /\ run.engine = "pull"
       /\ \E k \in 1..Len(run.pipeline) :
             /\ run.pipeline[k].name = "Limit"
             /\ counter[k] >= run.pipeline[k].n

\* One round of the terminal operation's loop: the next element is taken
\* from the source and run through the pipeline.
SeqElement ==
    LET pos == run.idx
        r == ApplyOperations(run.pipeline, 1, counter, seen, run.data[pos])
        top == IF r.stop > Len(run.pipeline) THEN Len(run.pipeline) ELSE r.stop
    IN  /\ last.result = "running"
        /\ run.engine \in Engines
        /\ ~Completed
        /\ counter' = r.counter
        /\ seen' = r.seen
        /\ reached' = [k \in 1..Len(run.pipeline) |->
                          IF k <= top THEN Append(reached[k], pos) ELSE reached[k]]
        /\ accepted' = [k \in 1..Len(run.pipeline) |->
                          IF k < r.stop THEN Append(accepted[k], pos) ELSE accepted[k]]
        /\ results' = IF r.keep THEN Append(results, r.x) ELSE results
        /\ run' = [run EXCEPT
              !.idx = pos + 1,
              !.acc = IF run.engine = "slice"
                      THEN SliceReduceStep(run.acc, run.f, pos - 1, r.keep, r.x)
                      ELSE PullReduceStep(run.acc, run.f, r.keep, r.x)]
        /\ UNCHANGED <<streams, mem, last, wk, mutex, slots, crashed>>

\* What the terminal operation hands back.
SeqResult ==
    CASE last.op = "Collect" -> results
      [] last.op = "Count" -> Len(results)
      [] last.op = "Reduce" ->
            IF run.engine = "slice"
            THEN [x |-> run.acc.x, ok |-> run.acc.valid]
            ELSE IF run.acc.count < 1 THEN [x |-> ZeroValue, ok |-> FALSE]
            ELSE [x |-> run.acc.x, ok |-> TRUE]
      [] OTHER -> 0

\* The loop has ended: the result is returned and the deferred terminate()
\* runs.
SeqReturn ==
    /\ last.result = "running"
    /\ run.engine \in Engines
    /\ Completed
    /\ last' = [last EXCEPT !.result = "ok", !.ret = SeqResult]
    /\ streams' = [streams EXCEPT ![1] = Terminate(streams[1])]
    /\ UNCHANGED <<mem, concVars>>

\* A terminal operation was called on an Open sequential stream built by
\* one of the chains.
SeqInit ==
    \E prog \in SeqPrograms, data \in SeqSources, engine \in Engines,
       op \in SeqOps, f \in ReduceFns :
        LET b == Build(prog, 1, <<>>,
                       NewStream(IF engine = "slice" THEN "stream"
                                 ELSE "sequentialStream", 1, 0, 0))
            p == IF engine = "slice" THEN Pipeline(b.mem, b.stream)
                 ELSE PullPipeline(prog)
        IN  /\ op # "Reduce" => f = "add"
            /\ streams = <<b.stream>>
            /\ mem = b.mem
            /\ last = Call(op, 1, 0, "running", 0, b.stream)
            /\ run = [data |-> data, idx |-> 1, engine |-> engine,
                      pipeline |-> p, f |-> f,
                      acc |-> [x |-> ZeroValue, valid |-> FALSE, count |-> 0]]
            /\ wk = <<>>
            /\ mutex = [k \in 1..Len(p) |-> 0]
            /\ counter = [k \in 1..Len(p) |-> 0]
            /\ seen = [k \in 1..Len(p) |-> {}]
            /\ slots = 0
            /\ results = <<>>
            /\ reached = [k \in 1..Len(p) |-> <<>>]
            /\ accepted = [k \in 1..Len(p) |-> <<>>]
            /\ crashed = FALSE

SeqNext ==
    \/ SeqElement
    \/ SeqReturn

SpecSeq == SeqInit /\ [][SeqNext]_vars

\* collect of terminal_operator.go as a function: the survivors of
\* data[i..], in encounter order, when the operators start with counters cs
\* and sets "sets".
RECURSIVE CollectFrom(_, _, _, _, _)
CollectFrom(p, data, i, cs, sets) ==
    IF i > Len(data) THEN <<>>
    ELSE LET r == ApplyOperations(p, 1, cs, sets, data[i])
         IN  (IF r.keep THEN <<r.x>> ELSE <<>>)
                 \o CollectFrom(p, data, i + 1, r.counter, r.seen)

\* The sequential Collect() of a freshly built pipeline over data.
SeqCollect(p, data) ==
    CollectFrom(p, data, 1, [k \in 1..Len(p) |-> 0], [k \in 1..Len(p) |-> {}])


\* ============================================================ scatter.go
\* A terminal operation of a concurrentStream with its coordinator: the
\* loop that reads the source and dispatches a worker per full partition,
\* the workers (the steps of the concurrent machine above), the hand-off of
\* each partial result on the unbuffered channel and the return.

\* Longest source tried in the scatter machine.
MaxScatterLen == 3

ScatterSources ==
    {[i \in 1..L |-> i] : L \in 0..MaxScatterLen}

\* Chains run in the scatter machine: none, stateless ones and one with
\* each stateful operator.
ScatterPrograms ==
    {<<>>,
     <<Step("Filter", 0, "even")>>,
     <<Step("Map", 0, "half")>>,
     <<Step("Limit", 1, "none")>>,
     <<Step("Skip", 1, "none")>>,
     <<Step("Distinct", 0, "mod2")>>}

\* source.HasNext() as the coordinator sees it.
HasNext == run.next <= Len(run.data)

\* A goroutine that has just been started with `go h(partition, channel)`.
NewWorker ==
    [pc |-> "admit", idx |-> 1, stage |-> 0, cur |-> 0, tmp |-> 0,
     keep |-> FALSE, out |-> <<>>]

\* A worker of scatterReduce that sends the zero value when nothing in its
\* partition survived.
PartialResultZero(op, f, out) ==
    CASE op = "Count" -> <<Len(out)>>
      [] op = "Reduce" -> IF out = <<>> THEN <<ZeroValue>> ELSE <<LeftFold(f, out)>>
      [] OTHER -> out

\* The partial result a worker sends: its survivors (scatterGather,
\* scatterForEach), their count (scatterCount) or their fold, if any
\* (scatterReduce).
PartialResult(op, f, out) ==
    CASE op = "Count" -> <<Len(out)>>
      [] op = "Reduce" -> IF out = <<>> THEN <<>> ELSE <<LeftFold(f, out)>>
      [] OTHER -> out

\* The coordinator's accumulator after one partial result was received.
Gathered(op, f, acc, partial) ==
    CASE op = "Count" -> <<acc[1] + partial[1]>>
      [] op = "Reduce" ->
            IF Len(acc) > 0 /\ Len(partial) > 0
            THEN <<ReduceFn(f, acc[1], partial[1])>>
            ELSE IF Len(partial) > 0 THEN partial
            ELSE acc
      [] OTHER -> acc \o partial

\* What the terminal operation returns from its accumulator.
ScatterResult(op, acc) ==
    CASE op = "Count" -> acc[1]
      [] op = "Reduce" ->
            IF Len(acc) = 0 THEN [x |-> ZeroValue, ok |-> FALSE]
            ELSE [x |-> acc[1], ok |-> TRUE]
      [] OTHER -> acc

\* Drain loop, partition not full: partition = append(partition, Next()).
DrainRead ==
    /\ run.pc = "drain"
    /\ HasNext
    /\ Len(run.partition) < run.partitionSize
    /\ run' = [run EXCEPT !.partition = Append(@, run.next), !.next = @ + 1]
    /\ UNCHANGED <<lifeVars, wk, mutex, counter, seen, slots, results, reached, accepted, crashed>>

\* A dispatch that waits for a free admission slot before it starts the
\* goroutine.
DrainLaunchWaits ==
    /\ run.pc = "drain"
    /\ HasNext
    /\ Len(run.partition) >= run.partitionSize
    /\ slots < run.limit
    /\ run' = [run EXCEPT !.chunks = Append(@, run.partition), !.partition = <<>>]
    /\ wk' = Append(wk, NewWorker)
    /\ UNCHANGED <<lifeVars, mutex, counter, seen, slots, results, reached, accepted, crashed>>

\* Drain loop, partition full: go h(partition, channel), and a new
\* partition is begun.
DrainLaunch ==
    /\ run.pc = "drain"
    /\ HasNext
    /\ Len(run.partition) >= run.partitionSize
    /\ run' = [run EXCEPT !.chunks = Append(@, run.partition), !.partition = <<>>]
    /\ wk' = Append(wk, NewWorker)
    /\ UNCHANGED <<lifeVars, mutex, counter, seen, slots, results, reached, accepted, crashed>>

\* The end of the drain loop without the dispatch of the last partition.
DrainEndDropsRest ==
    /\ run.pc = "drain"
    /\ ~HasNext
    /\ run' = [run EXCEPT !.partition = <<>>, !.pc = "gather"]
    /\ UNCHANGED <<lifeVars, wk, mutex, counter, seen, slots, results, reached, accepted, crashed>>

\* The source is exhausted: the last partition, if any, is dispatched and
\* the coordinator turns to the channel.
DrainEnd ==
    /\ run.pc = "drain"
    /\ ~HasNext
    /\ IF Len(run.partition) > 0
       THEN /\ run' = [run EXCEPT !.chunks = Append(@, run.partition),
                                  !.partition = <<>>, !.pc = "gather"]
            /\ wk' = Append(wk, NewWorker)
       ELSE /\ run' = [run EXCEPT !.pc = "gather"]
            /\ UNCHANGED wk
    /\ UNCHANGED <<lifeVars, mutex, counter, seen, slots, results, reached, accepted, crashed>>

\* channel <- partitionResults meets <-channel of the gather loop.
Receive(w) ==
    /\ run.pc = "gather"
    /\ run.received < Len(run.chunks)
    /\ wk[w].pc = "send"
    /\ results' = Gathered(last.op, run.f, results,
                           PartialResult(last.op, run.f, wk[w].out))
    /\ run' = [run EXCEPT !.received = @ + 1]
    /\ wk' = [wk EXCEPT ![w].pc = "release"]
    /\ UNCHANGED <<lifeVars, mutex, counter, seen, slots, reached, accepted, crashed>>

\* Every partial result was received: the result is returned and the
\* deferred terminate() runs.
ScatterReturn ==
    /\ run.pc = "gather"
    /\ run.received = Len(run.chunks)
    /\ run' = [run EXCEPT !.pc = "returned"]
    /\ last' = [last EXCEPT !.result = "ok", !.ret = ScatterResult(last.op, results)]
    /\ streams' = [streams EXCEPT ![1] = Terminate(Tip)]
    /\ UNCHANGED <<mem, wk, mutex, counter, seen, slots, results, reached, accepted, crashed>>

\* Collect / Count / Reduce was called on an Open concurrentStream.
ScatterInit ==
    \E prog \in ScatterPrograms, data \in ScatterSources, op \in ValueOps,
       concurrency \in ConcurrencyArgs, partitionSize \in PartitionSizes :
        LET b == Build(prog, 1, <<>>,
                       NewStream("concurrentStream", 1, concurrency, partitionSize))
            p == Pipeline(b.mem, b.stream)
        IN  /\ streams = <<b.stream>>
            /\ mem = b.mem
            /\ last = Call(op, 1, 0, "running", 0, b.stream)
            /\ run = [data |-> data, chunks |-> <<>>,
                      limit |-> b.stream.maxRoutines,
                      partitionSize |-> b.stream.partitionSize,
                      pc |-> "drain", next |-> 1, partition |-> <<>>,
                      received |-> 0, f |-> "add"]
            /\ wk = <<>>
            /\ mutex = [k \in 1..Len(p) |-> 0]
            /\ counter = [k \in 1..Len(p) |-> 0]
            /\ seen = [k \in 1..Len(p) |-> {}]
            /\ slots = 0
            /\ results = IF op = "Count" THEN <<0>> ELSE <<>>
            /\ reached = [k \in 1..Len(p) |-> {}]
            /\ accepted = [k \in 1..Len(p) |-> {}]
            /\ crashed = FALSE

\* The steps of the worker goroutines.
WorkerStep(w) ==
    \/ Admit(w)
    \/ NextElement(w)
    \/ Lock(w)
    \/ Load(w)
    \/ Inc(w)
    \/ Store(w)
    \/ Leave(w)
    \/ Receive(w)
    \/ Release(w)

\* The steps of the goroutine that called the terminal operation.
CoordinatorStep ==
    \/ DrainRead
    \/ DrainLaunch
    \/ DrainEnd
    \/ \E w \in Workers : Receive(w)
    \/ ScatterReturn

ScatterNext ==
    \/ DrainRead
    \/ DrainLaunch
    \/ DrainEnd
    \/ ScatterReturn
    \/ \E w \in Workers : WorkerStep(w)

SpecScatter == ScatterInit /\ [][ScatterNext]_vars

\* Every goroutine that can take a step eventually takes one.
SpecScatterFair ==
    /\ SpecScatter
    /\ WF_vars(DrainRead \/ DrainLaunch \/ DrainEnd \/ ScatterReturn)
    /\ \A w \in 1..MaxScatterLen : WF_vars(w \in Workers /\ WorkerStep(w))



\* ============================================ parallel Count and Reduce
\* Count() or Reduce(f) on a parallel stream of stream.go: parallelCount and
\* parallelReduce of terminal_operator.go cut the supplier's slice with
\* subIntervals, run count / reduce on each part in a goroutine of its own
\* (the worker steps of the concurrent machine above) and receive one
\* message from each.

\* Chains run in this machine: Parallelize(2) alone or followed by one
\* operator, which is then built synchronized.
ParPrograms ==
    {<<Step("Parallelize", 2, "none")>>}
        \cup {<<Step("Parallelize", 2, "none"), s>> :
                 s \in {Step("Filter", 0, "even"), Step("Map", 0, "half"),
                        Step("Distinct", 0, "id"), Step("Distinct", 0, "mod2"),
                        Step("Limit", 1, "none")}}

\* reduce(data, operations, f) of terminal_operator.go from index i on (from
\* 1 here), the operators holding counters cs and sets "sets": the
\* accumulator and the operators' state at the end.
RECURSIVE SliceReduce(_, _, _, _, _, _, _)
SliceReduce(p, data, i, cs, sets, f, acc) ==
    IF i > Len(data) THEN [acc |-> acc, counter |-> cs, seen |-> sets]
    ELSE LET r == ApplyOperations(p, 1, cs, sets, data[i])
         IN  SliceReduce(p, data, i + 1, r.counter, r.seen, f,
                         SliceReduceStep(acc, f, i - 1, r.keep, r.x))

\* var x T; valid := false.
NoAcc == [x |-> ZeroValue, valid |-> FALSE, count |-> 0]

\* The element at source position pos, of value x before stage k, has
\* passed every operator from k on in a worker's hands.
RECURSIVE Passed(_, _, _)
Passed(k, pos, x) ==
    IF k > Len(RunPipeline) THEN TRUE
    ELSE IF HasState(RunPipeline[k])
    THEN pos \in accepted[k] /\ Passed(k + 1, pos, x)
    ELSE /\ ApplyStateless(RunPipeline[k], x).keep
         /\ Passed(k + 1, pos, ApplyStateless(RunPipeline[k], x).x)

\* What the goroutine of partition w sends: count(partition), or the value
\* of reduce(partition) when that call reports one, which it does when the
\* first element of the partition survived.
ParPartial(w) ==
    CASE last.op = "Count" -> <<Len(wk[w].out)>>
      [] OTHER ->
            IF /\ Len(run.chunks[w]) > 0
               /\ Passed(1, run.chunks[w][1], run.data[run.chunks[w][1]])
            THEN <<LeftFold(run.f, wk[w].out)>>
            ELSE <<>>

\* channel <- ... meets <-channel: parallelCount adds the number to its
\* count, parallelReduce appends the message to results.
ParReceive(w) ==
    /\ wk[w].pc = "send"
    /\ results' = IF last.op = "Count"
                  THEN <<results[1] + ParPartial(w)[1]>>
                  ELSE results \o ParPartial(w)
    /\ wk' = [wk EXCEPT ![w].pc = "done"]
    /\ UNCHANGED <<lifeVars, run, mutex, counter, seen, slots, reached, accepted, crashed>>

\* Every message was received.  parallelCount returns the sum;
\* parallelReduce returns reduce(data, operations, f): the coordinator runs
\* the whole slice once more through the operators the workers have used.
\* The deferred terminate() runs.
ParReturn ==
    LET r == SliceReduce(RunPipeline, run.data, 1, counter, seen, run.f, NoAcc)
    IN  /\ last.result = "running"
        /\ \A w \in Workers : wk[w].pc = "done"
        /\ last' = [last EXCEPT
              !.result = "ok",
              !.ret = IF last.op = "Count" THEN results[1]
                      ELSE [x |-> r.acc.x, ok |-> r.acc.valid]]
        /\ counter' = IF last.op = "Count" THEN counter ELSE r.counter
        /\ seen' = IF last.op = "Count" THEN seen ELSE r.seen
        /\ streams' = [streams EXCEPT ![1] = Terminate(Tip)]
        /\ UNCHANGED <<mem, run, wk, mutex, slots, results, reached, accepted, crashed>>

\* Count() / Reduce(f) was called on an Open parallel stream: the slice is
\* cut and the goroutines are started.
ParInit ==
    \E prog \in ParPrograms, data \in Sources, op \in {"Count", "Reduce"},
       f \in ReduceFns :
        LET b == Build(prog, 1, <<>>, NewStream("stream", 1, 0, 0))
            p == Pipeline(b.mem, b.stream)
            chunks == IntervalChunks(Len(data), b.stream.maxRoutines)
        IN  /\ op = "Count" => f = "add"
            /\ streams = <<b.stream>>
            /\ mem = b.mem
            /\ last = Call(op, 1, 0, "running", 0, b.stream)
            /\ run = [data |-> data, chunks |-> chunks, limit |-> 0, f |-> f]
            /\ wk = [w \in 1..Len(chunks) |->
                        [pc |-> "next", idx |-> 1, stage |-> 0, cur |-> 0,
                         tmp |-> 0, keep |-> FALSE, out |-> <<>>]]
            /\ mutex = [k \in 1..Len(p) |-> 0]
            /\ counter = [k \in 1..Len(p) |-> 0]
            /\ seen = [k \in 1..Len(p) |-> {}]
            /\ slots = 0
            /\ results = IF op = "Count" THEN <<0>> ELSE <<>>
            /\ reached = [k \in 1..Len(p) |-> {}]
            /\ accepted = [k \in 1..Len(p) |-> {}]
            /\ crashed = FALSE

ParNext ==
    \/ \E w \in Workers : NextElement(w)
    \/ \E w \in Workers : Lock(w)
    \/ \E w \in Workers : Load(w)
    \/ \E w \in Workers : Inc(w)
    \/ \E w \in Workers : Store(w)
    \/ \E w \in Workers : Leave(w)
    \/ \E w \in Workers : ParReceive(w)
    \/ ParReturn

SpecPar == ParInit /\ [][ParNext]_vars


\* ============================================================ partitioning
\* The three ways the repository cuts a drained source of length L, as
\* functions of L and the number it is given, and the count of an
\* unfiltered source over the partitions.

\* Longest source cut.
MaxPartLen == 7

\* Largest concurrency / partition size given.
MaxPartArg == 3

\* "scatter": the drain loop of scatter.go, given a partition size;
\* "intervals": subIntervals of terminal_operator.go, given the number of
\* goroutines; "partition": Partition of sources.go, given the number of
\* partitions.
Strategies == {"scatter", "intervals", "partition"}

\* The least integer not below a / b.
CeilDiv(a, b) == (a + b - 1) \div b

\* Partition(n) of sources.go over L collected elements: partitions of
\* ceil(L / n) elements, the last one data[i:].
PartitionChunks(L, n) ==
    IF L = 0 THEN <<>>
    ELSE LET partitionSize == CeilDiv(L, n)
             numberOfPartitons == CeilDiv(L, partitionSize)
         IN  [j \in 1..numberOfPartitons |->
                 LET i == (j - 1) * partitionSize
                 IN  IF i + partitionSize >= L THEN Range(i + 1, L)
                     ELSE Range(i + 1, i + partitionSize)]

\* The partitions strategy s makes of L elements when given n.
ChunksOf(s, L, n) ==
    CASE s = "scatter" -> ScatterChunks(L, n)
      [] s = "intervals" -> IntervalChunks(L, n)
      [] OTHER -> PartitionChunks(L, n)

\* The source is cut.
Cut ==
    /\ run.pc = "drained"
    /\ run' = [run EXCEPT !.chunks = ChunksOf(run.strategy, run.L, run.n),
                          !.pc = "cut"]
    /\ wk' = [j \in 1..Len(ChunksOf(run.strategy, run.L, run.n)) |-> "count"]
    /\ UNCHANGED <<lifeVars, mutex, counter, seen, slots, results, reached, accepted, crashed>>

\* The goroutine of partition w has counted its elements and the
\* coordinator has added the number to its count.
CountPartition(w) ==
    /\ run.pc = "cut"
    /\ wk[w] = "count"
    /\ results' = <<results[1] + Len(run.chunks[w])>>
    /\ wk' = [wk EXCEPT ![w] = "done"]
    /\ UNCHANGED <<lifeVars, run, mutex, counter, seen, slots, reached, accepted, crashed>>

\* Every partition is counted: Count() returns.
CountReturn ==
    /\ run.pc = "cut"
    /\ \A w \in 1..Len(wk) : wk[w] = "done"
    /\ run' = [run EXCEPT !.pc = "returned"]
    /\ last' = [last EXCEPT !.result = "ok", !.ret = results[1]]
    /\ UNCHANGED <<streams, mem, wk, mutex, counter, seen, slots, results, reached, accepted, crashed>>

\* Count() on an unfiltered stream whose source of L elements has been
\* drained.
PartInit ==
    \E s \in Strategies, L \in 0..MaxPartLen, n \in 1..MaxPartArg :
        /\ streams = <<>>
        /\ mem = <<>>
        /\ last = Call("Count", 1, 0, "running", 0, NoStream)
        /\ run = [strategy |-> s, L |-> L, n |-> n, chunks |-> <<>>,
                  pc |-> "drained"]
        /\ wk = <<>>
        /\ mutex = <<>>
        /\ counter = <<>>
        /\ seen = <<>>
        /\ slots = 0
        /\ results = <<0>>
        /\ reached = <<>>
        /\ accepted = <<>>
        /\ crashed = FALSE

PartNext ==
    \/ Cut
    \/ \E w \in 1..Len(wk) : CountPartition(w)
    \/ CountReturn

SpecPart == PartInit /\ [][PartNext]_vars


\* ================================================= the optimizer at work
\* A data-based sequentialStream is built by a chain of intermediate calls;
\* its operators are sorted, the sorted operators sorted once more, and
\* the sorted pipeline is run over the data by Collect().

\* Longest chain of intermediate calls sorted.
MaxOps == 4

\* Longest source the sorted pipeline is run on.
MaxSortLen == 3

\* Intermediate calls of the chains.
SortSteps ==
    {Step("Filter", 0, "even"), Step("Filter", 0, "big"),
     Step("Distinct", 0, "mod2"), Step("Limit", 1, "none"),
     Step("Map", 0, "half")}

\* The chains of exactly n calls.
RECURSIVE ChainsOf(_)
ChainsOf(n) ==
    IF n = 0 THEN {<<>>}
    ELSE {Append(c, s) : c \in ChainsOf(n - 1), s \in SortSteps}

SortPrograms == UNION {ChainsOf(n) : n \in 0..MaxOps}

SortSources == {[i \in 1..L |-> i] : L \in 0..MaxSortLen}

\* operators := operator.Sort(stream.intermediateOperators).
Optimize ==
    /\ run.pc = "built"
    /\ run' = [run EXCEPT !.sorted = Sort(run.operators), !.pc = "sorted"]
    /\ UNCHANGED <<lifeVars, wk, mutex, counter, seen, slots, results, reached, accepted, crashed>>

\* Sort applied to the operators Sort returned.
OptimizeAgain ==
    /\ run.pc = "sorted"
    /\ run' = [run EXCEPT !.twice = Sort(run.sorted), !.pc = "resorted"]
    /\ UNCHANGED <<lifeVars, wk, mutex, counter, seen, slots, results, reached, accepted, crashed>>

\* return collect(operators, data): the sorted operators are run over the
\* data and the deferred terminate() runs.
CollectSorted ==
    /\ run.pc = "sorted"
    /\ run' = [run EXCEPT !.pc = "collected"]
    /\ results' = SeqCollect(run.sorted, run.data)
    /\ last' = [last EXCEPT !.result = "ok",
                            !.ret = SeqCollect(run.sorted, run.data)]
    /\ streams' = [streams EXCEPT ![1] = Terminate(streams[1])]
    /\ UNCHANGED <<mem, wk, mutex, counter, seen, slots, reached, accepted, crashed>>

\* Collect() was called on an Open sequentialStream built by a chain.
SortInit ==
    \E prog \in SortPrograms, data \in SortSources :
        LET b == Build(prog, 1, <<>>, NewStream("sequentialStream", 1, 0, 0))
        IN  /\ streams = <<b.stream>>
            /\ mem = b.mem
            /\ last = Call("Collect", 1, 0, "running", 0, b.stream)
            /\ run = [operators |-> Pipeline(b.mem, b.stream), data |-> data,
                      sorted |-> <<>>, twice |-> <<>>, pc |-> "built"]
            /\ wk = <<>>
            /\ mutex = <<>>
            /\ counter = <<>>
            /\ seen = <<>>
            /\ slots = 0
            /\ results = <<>>
            /\ reached = <<>>
            /\ accepted = <<>>
            /\ crashed = FALSE

SortNext ==
    \/ Optimize
    \/ OptimizeAgain
    \/ CollectSorted

SpecSort == SortInit /\ [][SortNext]_vars


\* ===================================== parallel terminal operations
\* ForEach(f), Collect(), Count() or Reduce(f) on a parallel stream of
\* stream.go, one step per element.  The slice is cut with subIntervals and
\* each part handled by a goroutine of its own: parallelForEach has every
\* goroutine call f itself on each survivor of its part; parallelCollect,
\* parallelCount and parallelReduce have it send one message when its part
\* is done.  "results" is what f has been called with, or what was
\* gathered, so far; "accepted" holds the source positions of the elements
\* in the output of ForEach and Collect; reached[k] holds, in the order of
\* the calls, the source positions operator k was applied to.

\* Chains run in this machine.  The operators are built synchronized or
\* hold no state, so the application of the pipeline to an element is one
\* step.
EachPrograms ==
    {<<Step("Parallelize", 2, "none")>>}
        \cup {<<Step("Parallelize", 2, "none"), s>> :
                 s \in {Step("Filter", 0, "even"), Step("Map", 0, "half"),
                        Step("Limit", 2, "none"), Step("Peek", 0, "log")}}
        \cup {<<Step("Parallelize", 2, "none"), Step("Filter", 0, "even"),
                Step("Peek", 0, "log")>>}

\* The goroutine of partition w at the head of its loop.
EachWorker ==
    [pc |-> "apply", idx |-> 1, cur |-> 0, out |-> <<>>, outpos |-> <<>>]

\* The calls log after the operators up to stage "stop" were applied to
\* the element at pos.
Applied(log, stop, pos) ==
    [k \in DOMAIN log |-> IF k <= stop THEN Append(log[k], pos) ELSE log[k]]

\* A goroutine that hands each survivor over at once, whatever the
\* terminal operation.
EachApplyUnbuffered(w) ==
    LET pos == run.chunks[w][wk[w].idx]
        r == ApplyOperations(RunPipeline, 1, counter, seen, run.data[pos])
    IN  /\ wk[w].pc = "apply"
        /\ wk[w].idx <= Len(run.chunks[w])
        /\ counter' = r.counter
        /\ seen' = r.seen
        /\ reached' = Applied(reached, r.stop, pos)
        /\ wk' = [wk EXCEPT
              ![w].cur = r.x,
              ![w].pc = IF r.keep THEN "visit" ELSE "apply",
              ![w].idx = IF r.keep THEN @ ELSE @ + 1]
        /\ UNCHANGED <<lifeVars, run, mutex, slots, results, accepted, crashed>>

\* result, ok := applyOperations(val, operations) on the next element of
\* the partition: a survivor is about to be passed to f (forEach), or is
\* added to what the goroutine will send (collect, count, reduce).
EachApply(w) ==
    LET pos == run.chunks[w][wk[w].idx]
        r == ApplyOperations(RunPipeline, 1, counter, seen, run.data[pos])
    IN  /\ wk[w].pc = "apply"
        /\ wk[w].idx <= Len(run.chunks[w])
        /\ counter' = r.counter
        /\ seen' = r.seen
        /\ reached' = Applied(reached, r.stop, pos)
        /\ wk' = [wk EXCEPT
              ![w].cur = r.x,
              ![w].pc = IF r.keep /\ last.op = "ForEach" THEN "visit" ELSE "apply",
              ![w].idx = IF r.keep /\ last.op = "ForEach" THEN @ ELSE @ + 1,
              ![w].out = IF r.keep /\ last.op # "ForEach"
                         THEN Append(@, r.x) ELSE @,
              ![w].outpos = IF r.keep /\ last.op # "ForEach"
                            THEN Append(@, pos) ELSE @]
        /\ UNCHANGED <<lifeVars, run, mutex, slots, results, accepted, crashed>>

\* f(result), called by the goroutine of partition w.
EachVisit(w) ==
    /\ wk[w].pc = "visit"
    /\ results' = Append(results, wk[w].cur)
    /\ accepted' = Append(accepted, run.chunks[w][wk[w].idx])
    /\ wk' = [wk EXCEPT ![w].pc = "apply", ![w].idx = @ + 1]
    /\ UNCHANGED <<lifeVars, run, mutex, counter, seen, slots, reached, crashed>>

\* The message of the goroutine of partition w: its survivors (collect),
\* their number (count), or the value of reduce(partition) when that call
\* reports one, which it does when the first element of the partition
\* survived.
EachMessage(w) ==
    CASE last.op = "Collect" -> wk[w].out
      [] last.op = "Count" -> <<Len(wk[w].out)>>
      [] last.op = "Reduce" ->
            IF /\ Len(wk[w].outpos) > 0
               /\ wk[w].outpos[1] = run.chunks[w][1]
            THEN <<LeftFold(run.f, wk[w].out)>>
            ELSE <<>>
      [] OTHER -> <<>>

\* The partition is finished: wg.Done() (forEach), or the message is sent
\* and the coordinator adds it to what it has.
EachFinish(w) ==
    /\ wk[w].pc = "apply"
    /\ wk[w].idx > Len(run.chunks[w])
    /\ results' = IF last.op = "Count"
                  THEN <<results[1] + EachMessage(w)[1]>>
                  ELSE results \o EachMessage(w)
    /\ accepted' = IF last.op = "Collect" THEN accepted \o wk[w].outpos
                   ELSE accepted
    /\ wk' = [wk EXCEPT ![w].pc = "done"]
    /\ UNCHANGED <<lifeVars, run, mutex, counter, seen, slots, reached, crashed>>

\* The calls log of one sequential pass of the operators p over data[i..],
\* the operators holding counters cs and sets "sets".
RECURSIVE PassLog(_, _, _, _, _, _)
PassLog(p, data, i, cs, sets, log) ==
    IF i > Len(data) THEN log
    ELSE LET r == ApplyOperations(p, 1, cs, sets, data[i])
         IN  PassLog(p, data, i + 1, r.counter, r.seen, Applied(log, r.stop, i))

\* wg.Wait() is over, or every message was received.  parallelForEach
\* returns, parallelCollect returns what it gathered, parallelCount the
\* sum, and parallelReduce returns reduce(data, operations, f): a pass of
\* the coordinator over the whole slice through the same operators.  The
\* deferred terminate() runs.
EachReturn ==
    LET again == SliceReduce(RunPipeline, run.data, 1, counter, seen, run.f, NoAcc)
    IN  /\ last.result = "running"
        /\ \A w \in Workers : wk[w].pc = "done"
        /\ last' = [last EXCEPT
              !.result = "ok",
              !.ret = CASE last.op = "Collect" -> results
                        [] last.op = "Count" -> results[1]
                        [] last.op = "Reduce" ->
                              [x |-> again.acc.x, ok |-> again.acc.valid]
                        [] OTHER -> 0]
        /\ IF last.op = "Reduce"
           THEN /\ counter' = again.counter
                /\ seen' = again.seen
                /\ reached' = PassLog(RunPipeline, run.data, 1, counter, seen, reached)
           ELSE UNCHANGED <<counter, seen, reached>>
        /\ streams' = [streams EXCEPT ![1] = Terminate(Tip)]
        /\ UNCHANGED <<mem, run, wk, mutex, slots, results, accepted, crashed>>

\* A terminal operation was called on an Open parallel stream.
EachInit ==
    \E prog \in EachPrograms, data \in Sources, op \in TerminalOps :
        LET b == Build(prog, 1, <<>>, NewStream("stream", 1, 0, 0))
            p == Pipeline(b.mem, b.stream)
            chunks == IntervalChunks(Len(data), b.stream.maxRoutines)
        IN  /\ streams = <<b.stream>>
            /\ mem = b.mem
            /\ last = Call(op, 1, 0, "running", 0, b.stream)
            /\ run = [data |-> data, chunks |-> chunks, limit |-> 0, f |-> "add"]
            /\ wk = [w \in 1..Len(chunks) |-> EachWorker]
            /\ mutex = [k \in 1..Len(p) |-> 0]
            /\ counter = [k \in 1..Len(p) |-> 0]
            /\ seen = [k \in 1..Len(p) |-> {}]
            /\ slots = 0
            /\ results = IF op = "Count" THEN <<0>> ELSE <<>>
            /\ reached = [k \in 1..Len(p) |-> <<>>]
            /\ accepted = <<>>
            /\ crashed = FALSE

EachNext ==
    \/ \E w \in Workers : EachApply(w)
    \/ \E w \in Workers : EachVisit(w)
    \/ \E w \in Workers : EachFinish(w)
    \/ EachReturn

SpecEach == EachInit /\ [][EachNext]_vars

\* ============================================== construction with a config
\* ConcurrentFromSlice(f, concurrency, partitionSize) of part_003 followed
\* by a chain of Filter calls and terminal operations on what it returned.
\* "run" keeps the arguments of the construction.

\* Concurrency levels and partition sizes handed to the constructor.
ConcurrencyConfigs == {-2, 0, 1, 2}

PartitionConfigs == {0, 2}

\* ConcurrentFromSlice: the struct literal is returned with the arguments
\* stored as they came.
ConcurrentFromSlice(concurrency, partitionSize) ==
    /\ streams = <<>>
    /\ streams' = <<NewStream("concurrentStream", 1, concurrency, partitionSize)>>
    /\ last' = Call("ConcurrentFromSlice", 0, 0, "ok", 1, NoStream)
    /\ run' = [run EXCEPT !.concurrency = concurrency,
                          !.partitionSize = partitionSize]
    /\ UNCHANGED <<mem, wk, mutex, counter, seen, slots, results, reached,
                   accepted, crashed>>

ConstructStep ==
    \E concurrency \in ConcurrencyConfigs, partitionSize \in PartitionConfigs :
        ConcurrentFromSlice(concurrency, partitionSize)

\* Filter(f) on one of the streams.
ConfigDeriveStep ==
    \E recv \in 1..Len(streams) :
        /\ Derive(recv, "Filter", 0, "even")
        /\ Len(streams') <= MaxStreams

\* No stream has been constructed.
ConfigInit ==
    /\ streams = <<>>
    /\ mem = <<>>
    /\ last = Call("none", 0, 0, "ok", 0, NoStream)
    /\ run = [data |-> <<>>, chunks |-> <<>>, limit |-> 0,
              concurrency |-> 0, partitionSize |-> 0]
    /\ wk = <<>>
    /\ mutex = <<>>
    /\ counter = <<>>
    /\ seen = <<>>
    /\ slots = 0
    /\ results = <<>>
    /\ reached = <<>>
    /\ accepted = <<>>
    /\ crashed = FALSE

ConfigNext ==
    \/ ConstructStep
    \/ ConfigDeriveStep /\ UNCHANGED concVars
    \/ TerminalStep /\ UNCHANGED concVars

SpecConfig == ConfigInit /\ [][ConfigNext]_vars

\* ======================================================= slice sources
\* The Source that NewSourceFromSlice(f) of sources/sources.go (FromSlice
\* of part_015, newSourceFromSlice of streams/sources.go) returns, with the
\* program that owns the slice f returns.  "run" holds the slice variable
\* of the program (backing), the captured variables of the two closures
\* (initialized, data, i) and the number of calls of f; "results" holds
\* what Next() has returned; "streams" the stream built over the source and
\* those derived from it.

\* Longest slice the program makes, and how often it changes its slice.
MaxSourceLen == 2

MaxEdits == 2

\* hasNext with "i++" in it.
hasNextConsuming(s) ==
    LET data == IF s.initialized THEN s.data ELSE s.backing
    IN  [s EXCEPT !.initialized = TRUE,
                  !.data = data,
                  !.calls = IF s.initialized THEN @ ELSE @ + 1,
                  !.i = IF s.i <= Len(data) THEN @ + 1 ELSE @,
                  !.ret = s.i <= Len(data)]

\* hasNext without the "initialized" test: f is called every time.
hasNextRefetch(s) ==
    [s EXCEPT !.initialized = TRUE,
              !.data = s.backing,
              !.calls = @ + 1,
              !.ret = s.i <= Len(s.backing)]

\* The closure hasNext: the first call stores f() in data; the answer is
\* whether i is inside data.  A nil slice is the empty sequence here.  The
\* variables of the closures after the call, with the answer in "ret".
hasNext(s) ==
    LET data == IF s.initialized THEN s.data ELSE s.backing
    IN  [s EXCEPT !.initialized = TRUE,
                  !.data = data,
                  !.calls = IF s.initialized THEN @ ELSE @ + 1,
                  !.ret = s.i <= Len(data)]

\* source.HasNext().
SourceHasNext ==
    /\ run' = hasNext(run)
    /\ last' = Call("HasNext", 0, 0, "ok", hasNext(run).ret, NoStream)
    /\ UNCHANGED <<streams, mem, wk, mutex, counter, seen, slots, results,
                   reached, accepted, crashed>>

\* source.Next(): the closure next calls hasNext and panics when the answer
\* is false, otherwise returns data[i] and moves i on.
SourceNext ==
    LET s == hasNext(run)
    IN  IF ~s.ret
        THEN /\ run' = s
             /\ last' = Call("Next", 0, 0, "NoNextElement", 0, NoStream)
             /\ UNCHANGED <<streams, mem, wk, mutex, counter, seen, slots,
                            results, reached, accepted, crashed>>
        ELSE /\ run' = [s EXCEPT !.i = @ + 1]
             /\ results' = Append(results, s.data[s.i])
             /\ last' = Call("Next", 0, 0, "ok", s.data[s.i], NoStream)
             /\ UNCHANGED <<streams, mem, wk, mutex, counter, seen, slots,
                            reached, accepted, crashed>>

\* The program changes its slice: slice = append(slice, v), or slice = nil.
SourceEdit ==
    /\ run.edits < MaxEdits
    /\ \/ /\ Len(run.backing) < MaxSourceLen
          /\ run' = [run EXCEPT !.backing = Append(@, 10 * (run.edits + 1) + Len(@)),
                                !.edits = @ + 1]
       \/ /\ run.backing # <<>>
          /\ run' = [run EXCEPT !.backing = <<>>, !.edits = @ + 1]
    /\ last' = Call("Edit", 0, 0, "ok", 0, NoStream)
    /\ UNCHANGED <<streams, mem, wk, mutex, counter, seen, slots, results,
                   reached, accepted, crashed>>

\* Filter(f) on one of the streams over the source: the new stream gets the
\* source of its parent; no closure of the source is called.
SourceDeriveStep ==
    \E recv \in 1..Len(streams) :
        /\ Derive(recv, "Filter", 0, "even")
        /\ Len(streams') <= MaxStreams
        /\ UNCHANGED concVars

\* slice := ...; FromSlice(func() []T { return slice }) has returned: the
\* closures exist and none has been called.
SourceInit ==
    /\ \E backing \in {<<>>, <<1>>, <<1, 2>>} :
          run = [backing |-> backing, edits |-> 0, initialized |-> FALSE,
                 data |-> <<>>, i |-> 1, calls |-> 0, ret |-> FALSE]
    /\ streams = <<NewStream("concurrentStream", 1, 2, 1)>>
    /\ mem = <<>>
    /\ last = Call("FromSlice", 0, 0, "ok", 1, NoStream)
    /\ wk = <<>>
    /\ mutex = <<>>
    /\ counter = <<>>
    /\ seen = <<>>
    /\ slots = 0
    /\ results = <<>>
    /\ reached = <<>>
    /\ accepted = <<>>
    /\ crashed = FALSE

SourceNextStep ==
    \/ SourceHasNext
    \/ SourceNext
    \/ SourceEdit
    \/ SourceDeriveStep

SpecSource == SourceInit /\ [][SourceNextStep]_vars

\* ============================================ pulling an infinite source
\* Collect() or Count() of the pull stream of sequential_stream.go lines
\* 202-551 over a source whose HasNext() is always true.  The source
\* repeats the values of PullCycle for ever, so the run has finitely many
\* states and a run that never returns shows as a cycle.  run.phase is the
\* place of the source in its cycle; "accepted" holds the values the first
\* Limit of the pipeline let through.

\* What next() of the source returns, over and over.
PullCycle == <<1, 2>>

\* Counts handed to Limit.
PullLimits == {0, 2, 3}

\* Chains of one or two calls with a Limit among them.
PullSteps ==
    {Step("Limit", n, "none") : n \in PullLimits}
        \cup {Step("Filter", 0, "even"), Step("Map", 0, "half"),
              Step("Distinct", 0, "mod2"), Step("Skip", 1, "none")}

PullPrograms ==
    {p \in {<<s>> : s \in PullSteps} \cup {<<s, u>> : s \in PullSteps, u \in PullSteps} :
        \E k \in 1..Len(p) : p[k].op = "Limit"}

\* The first Limit of pipeline p.
FirstLimit(p) ==
    CHOOSE k \in 1..Len(p) :
        /\ p[k].name = "Limit"
        /\ \A h \in 1..(k - 1) : p[h].name # "Limit"

\* The value x has when the closure of stage k of pipeline p receives it:
\* the Maps in front of k have been applied.
RECURSIVE ValueEntering(_, _, _)
ValueEntering(p, k, x) ==
    IF k = 1 THEN x
    ELSE IF p[k - 1].name = "Map"
    THEN Fun(p[k - 1].fn, ValueEntering(p, k - 1, x))
    ELSE ValueEntering(p, k - 1, x)

\* completed() with "n > limit".
PullCompletedPastLimit ==
    \E k \in 1..Len(run.pipeline) :
        /\ run.pipeline[k].name = "Limit"
        /\ counter[k] > run.pipeline[k].n

\* completed() of the stream the terminal operation is called on: the
\* source has no next element, which never is, or the counter of a Limit in
\* the chain has reached its limit.
PullCompleted ==
    \E k \in 1..Len(run.pipeline) :
        /\ run.pipeline[k].name = "Limit"
        /\ counter[k] >= run.pipeline[k].n

\* One round of "for !stream.completed()": pipeline() pulls the next
\* element of the source through the closures.
PullElement ==
    LET x == PullCycle[run.phase]
        r == ApplyOperations(run.pipeline, 1, counter, seen, x)
    IN  /\ last.result = "running"
        /\ ~PullCompleted
        /\ counter' = r.counter
        /\ seen' = r.seen
        /\ results' = IF r.keep THEN Append(results, r.x) ELSE results
        /\ accepted' = IF r.stop > FirstLimit(run.pipeline)
                       THEN Append(accepted,
                                   ValueEntering(run.pipeline,
                                                 FirstLimit(run.pipeline), x))
                       ELSE accepted
        /\ run' = [run EXCEPT !.phase = (@ % Len(PullCycle)) + 1]
        /\ UNCHANGED <<streams, mem, last, wk, mutex, slots, reached, crashed>>

\* The loop has ended: the slice or the count is returned and the deferred
\* terminate() runs.
PullReturn ==
    /\ last.result = "running"
    /\ PullCompleted
    /\ last' = [last EXCEPT
          !.result = "ok",
          !.ret = IF last.op = "Count" THEN Len(results) ELSE results]
    /\ streams' = [streams EXCEPT ![1] = Terminate(streams[1])]
    /\ UNCHANGED <<mem, concVars>>

\* Collect() or Count() was called on an Open stream built by one of the
\* chains over the source.
PullInit ==
    \E prog \in PullPrograms, op \in {"Collect", "Count"} :
        LET b == Build(prog, 1, <<>>, NewStream("sequentialStream", 1, 0, 0))
            p == PullPipeline(prog)
        IN  /\ streams = <<b.stream>>
            /\ mem = b.mem
            /\ last = Call(op, 1, 0, "running", 0, b.stream)
            /\ run = [phase |-> 1, pipeline |-> p]
            /\ wk = <<>>
            /\ mutex = [k \in 1..Len(p) |-> 0]
            /\ counter = [k \in 1..Len(p) |-> 0]
            /\ seen = [k \in 1..Len(p) |-> {}]
            /\ slots = 0
            /\ results = <<>>
            /\ reached = <<>>
            /\ accepted = <<>>
            /\ crashed = FALSE

PullNext ==
    \/ PullElement
    \/ PullReturn

SpecPull == PullInit /\ [][PullNext]_vars

\* The goroutine of the terminal operation keeps running.
SpecPullFair == SpecPull /\ WF_vars(PullElement) /\ WF_vars(PullReturn)

\* ===================================== concurrent stream over partitions
\* The concurrentStream of concurrent_stream.go: the source is cut into
\* partitions, one goroutine runs collect on each, and every call of the
\* pipeline closure of a Limit, Skip or Distinct locks that operator's mutex
\* before it calls the closure of the stream it was derived from, and
\* unlocks it (deferred) when it returns.

\* Longest source of a partitioned run.
MaxNestLen == 3

\* The maxConcurrency the stream was constructed with.
maxConcurrency == 2

\* partitionedSource.Partition(n): consecutive parts of ceil(len/n) elements.
Partition(data, n) ==
    IF Len(data) = 0 THEN <<>>
    ELSE LET partitionSize == CeilDiv(Len(data), n)
             numberOfPartitons == CeilDiv(Len(data), partitionSize)
         IN  [j \in 1..numberOfPartitons |->
                 SubSeq(data, (j - 1) * partitionSize + 1,
                        IF j * partitionSize >= Len(data) THEN Len(data)
                        ELSE j * partitionSize)]

\* The derivations tried on a partitioned stream.
NestSteps ==
    {Step("Limit", 1, "none"), Step("Limit", 2, "none"), Step("Skip", 1, "none"),
     Step("Distinct", 0, "mod2"), Step("Filter", 0, "even")}

\* Chains with at least two operators that carry a mutex.
NestPrograms ==
    {p \in {<<s, u>> : s \in NestSteps, u \in NestSteps}
            \cup {<<s, u, v>> : s \in NestSteps, u \in NestSteps, v \in NestSteps} :
        Cardinality({k \in 1..Len(p) : p[k].op \in StatefulOps}) >= 2}

\* The closures of the chain, innermost first; Limit, Skip and Distinct
\* always declare a mutex.
NestPipeline(prog) ==
    [k \in 1..Len(prog) |->
        [name |-> prog[k].op, n |-> prog[k].n, fn |-> prog[k].fn,
         sync |-> prog[k].op \in StatefulOps]]

\* stream.completed(i): the partition has no next element, or the counter
\* of some Limit of the chain has reached its limit.
PartitionCompleted(w) ==
    \/ wk[w].idx > Len(run.chunks[w])
    \/ \E k \in 1..Len(run.pipeline) :
          run.pipeline[k].name = "Limit" /\ counter[k] >= run.pipeline[k].n

\* for !stream.completed(i): the worker calls the outermost closure, or
\* leaves the loop.
CollectLoop(w) ==
    /\ wk[w].pc = "loop"
    /\ wk' = [wk EXCEPT ![w].pc = IF PartitionCompleted(w) THEN "send" ELSE "enter",
                        ![w].stage = Len(run.pipeline)]
    /\ UNCHANGED <<lifeVars, run, mutex, counter, seen, slots, results, reached, accepted, crashed>>

\* A closure is entered: mutex.Lock() where it has one, then the call of
\* the closure of the input stream.
PipelineEnter(w) ==
    LET k == wk[w].stage
    IN  /\ wk[w].pc = "enter"
        /\ IF run.pipeline[k].sync
           THEN /\ mutex[k] = 0
                /\ mutex' = [mutex EXCEPT ![k] = w]
                /\ wk' = [wk EXCEPT ![w].held = Append(@, k),
                                    ![w].stage = k - 1,
                                    ![w].pc = IF k = 1 THEN "fetch" ELSE "enter"]
           ELSE /\ wk' = [wk EXCEPT ![w].stage = k - 1,
                                    ![w].pc = IF k = 1 THEN "fetch" ELSE "enter"]
                /\ UNCHANGED mutex
        /\ UNCHANGED <<lifeVars, run, counter, seen, slots, results, reached, accepted, crashed>>

\* emptyConcurrentPipeline: source.At(i).Next(), true.
SourceFetch(w) ==
    /\ wk[w].pc = "fetch"
    /\ wk' = [wk EXCEPT ![w].cur = run.chunks[w][wk[w].idx],
                        ![w].idx = @ + 1,
                        ![w].keep = TRUE,
                        ![w].stage = 1,
                        ![w].pc = "exit"]
    /\ UNCHANGED <<lifeVars, run, mutex, counter, seen, slots, results, reached, accepted, crashed>>

\* Whether closure k keeps the element its input returned.
Keeps(k, x, ok) ==
    LET op == run.pipeline[k]
    IN  /\ ok
        /\ CASE op.name = "Limit" -> counter[k] < op.n
             [] op.name = "Skip" -> ~(counter[k] < op.n)
             [] op.name = "Distinct" -> ClassOf(op.fn, x) \notin seen[k]
             [] OTHER -> Pred(op.fn, x)

\* A closure that returns without unlocking its mutex.
PipelineExitHolding(w) ==
    LET k    == wk[w].stage
        op   == run.pipeline[k]
        keep == Keeps(k, wk[w].cur, wk[w].keep)
    IN  /\ wk[w].pc = "exit"
        /\ counter' = IF wk[w].keep /\ op.name \in {"Limit", "Skip"} /\ counter[k] < op.n
                      THEN [counter EXCEPT ![k] = @ + 1] ELSE counter
        /\ seen' = IF keep /\ op.name = "Distinct"
                   THEN [seen EXCEPT ![k] = @ \cup {ClassOf(op.fn, wk[w].cur)}]
                   ELSE seen
        /\ UNCHANGED mutex
        /\ wk' = [wk EXCEPT
              ![w].keep = keep,
              ![w].held = IF op.sync THEN SubSeq(@, 1, Len(@) - 1) ELSE @,
              ![w].stage = k + 1,
              ![w].pc = IF k = Len(run.pipeline) THEN "loop" ELSE "exit",
              ![w].out = IF k = Len(run.pipeline) /\ keep
                         THEN Append(@, wk[w].cur) ELSE @]
        /\ UNCHANGED <<lifeVars, run, slots, results, reached, accepted, crashed>>

\* The input closure has returned: the operator tests and updates its
\* state, the deferred mutex.Unlock() runs, and the result goes to the
\* caller - the closure derived from this one, or the loop of collect.
PipelineExit(w) ==
    LET k    == wk[w].stage
        op   == run.pipeline[k]
        keep == Keeps(k, wk[w].cur, wk[w].keep)
    IN  /\ wk[w].pc = "exit"
        /\ counter' = IF wk[w].keep /\ op.name \in {"Limit", "Skip"} /\ counter[k] < op.n
                      THEN [counter EXCEPT ![k] = @ + 1] ELSE counter
        /\ seen' = IF keep /\ op.name = "Distinct"
                   THEN [seen EXCEPT ![k] = @ \cup {ClassOf(op.fn, wk[w].cur)}]
                   ELSE seen
        /\ mutex' = IF op.sync THEN [mutex EXCEPT ![k] = 0] ELSE mutex
        /\ wk' = [wk EXCEPT
              ![w].keep = keep,
              ![w].held = IF op.sync THEN SubSeq(@, 1, Len(@) - 1) ELSE @,
              ![w].stage = k + 1,
              ![w].pc = IF k = Len(run.pipeline) THEN "loop" ELSE "exit",
              ![w].out = IF k = Len(run.pipeline) /\ keep
                         THEN Append(@, wk[w].cur) ELSE @]
        /\ UNCHANGED <<lifeVars, run, slots, results, reached, accepted, crashed>>

\* result <- data on the channel buffered for every partition, wg.Done().
CollectSend(w) ==
    /\ wk[w].pc = "send"
    /\ results' = results \o wk[w].out
    /\ wk' = [wk EXCEPT ![w].pc = "done"]
    /\ UNCHANGED <<lifeVars, run, mutex, counter, seen, slots, reached, accepted, crashed>>

\* wg.Wait() is over: Collect returns what the partitions sent and the
\* deferred terminate() runs.
ForEachReturn ==
    /\ last.result = "running"
    /\ \A w \in Workers : wk[w].pc = "done"
    /\ last' = [last EXCEPT !.result = "ok", !.ret = results]
    /\ streams' = [streams EXCEPT ![1] = Terminate(streams[1])]
    /\ UNCHANGED <<mem, concVars>>

\* Collect() was called on an Open stream built by one of the chains; the
\* source was collected and cut into partitions, one goroutine each.
NestInit ==
    \E prog \in NestPrograms, data \in {s \in Sources : Len(s) \in 1..MaxNestLen} :
        LET p == NestPipeline(prog)
            s == [NewStream("concurrentStream", 1, maxConcurrency, 0)
                      EXCEPT !.distinct = \E k \in 1..Len(prog) : prog[k].op = "Distinct"]
        IN  /\ streams = <<s>>
            /\ mem = <<>>
            /\ last = Call("Collect", 1, 0, "running", 0, s)
            /\ run = [data |-> data, chunks |-> Partition(data, maxConcurrency),
                      pipeline |-> p]
            /\ wk = [w \in 1..Len(Partition(data, maxConcurrency)) |->
                        [pc |-> "loop", idx |-> 1, stage |-> 0, cur |-> 0,
                         keep |-> FALSE, out |-> <<>>, held |-> <<>>]]
            /\ mutex = [k \in 1..Len(p) |-> 0]
            /\ counter = [k \in 1..Len(p) |-> 0]
            /\ seen = [k \in 1..Len(p) |-> {}]
            /\ slots = 0
            /\ results = <<>>
            /\ reached = <<>>
            /\ accepted = <<>>
            /\ crashed = FALSE

\* The steps of the goroutine of partition w.
NestWorkerStep(w) ==
    \/ CollectLoop(w)
    \/ PipelineEnter(w)
    \/ SourceFetch(w)
    \/ PipelineExit(w)
    \/ CollectSend(w)

NestNext ==
    \/ \E w \in Workers : CollectLoop(w)
    \/ \E w \in Workers : PipelineEnter(w)
    \/ \E w \in Workers : SourceFetch(w)
    \/ \E w \in Workers : PipelineExit(w)
    \/ \E w \in Workers : CollectSend(w)
    \/ ForEachReturn

SpecNest == NestInit /\ [][NestNext]_vars

\* Every goroutine that can take a step eventually takes one.
SpecNestFair ==
    /\ SpecNest
    /\ WF_vars(ForEachReturn)
    /\ \A w \in 1..maxConcurrency : WF_vars(w \in Workers /\ NestWorkerStep(w))

\* ================================================================ claims
StreamIds == 1..Len(streams)

\* The receiver of the last call as it is now, and the stream it returned.
Receiver == streams[last.recv]

Returned == streams[last.ret]

\* The stream ids on the path from stream i up to its root.
RECURSIVE Lineage(_)
Lineage(i) ==
    IF i = 0 THEN {} ELSE {i} \cup Lineage(streams[i].parent)

\* C1: an intermediate or terminal operation called on a stream that is
\* Closed but not Terminated fails with StreamClosed, called on a Terminated
\* stream it fails with StreamTerminated, and in both cases nothing is
\* returned.
C1_ClosedOrTerminatedFails ==
    last.op \in IntermediateOps \cup TerminalOps =>
        /\ (last.pre.closed /\ ~last.pre.terminated) =>
               (last.result = "StreamClosed" /\ last.ret = 0)
        /\ last.pre.terminated =>
               (last.result = "StreamTerminated" /\ last.ret = 0)

\* C1 witness: Limit was called on a terminated stream and Collect on a
\* stream closed by a derivation, whichever came last.
C1_Witness ==
    \/ /\ last.op = "Limit"
       /\ last.pre.terminated
       /\ last.result = "StreamTerminated"
    \/ /\ last.op = "Collect"
       /\ last.pre.closed /\ ~last.pre.terminated
       /\ last.result = "StreamClosed"

\* C2: once a terminal operation has returned, the stream is Terminated and
\* Closed; neither flag of any stream ever reverts; and a terminal operation
\* on a stream that was already Terminated fails.
C2_TerminalOnce ==
    /\ [](last.op \in TerminalOps /\ last.result = "ok" =>
              Receiver.terminated /\ Receiver.closed)
    /\ [][\A i \in StreamIds :
              /\ streams[i].terminated => streams'[i].terminated
              /\ streams[i].closed => streams'[i].closed]_vars
    /\ [](last.op \in TerminalOps /\ last.pre.terminated =>
              last.result = "StreamTerminated")

\* C2 witness: a second terminal operation on a terminated stream failed.
C2_Witness ==
    /\ last.op \in TerminalOps
    /\ last.pre.terminated
    /\ last.result = "StreamTerminated"
    /\ Receiver.terminated /\ Receiver.closed

\* C3: whenever a stream was produced from an existing stream, the stream
\* it was produced from is Closed, so a lineage branch holds at most one
\* stream that is not Closed.
C3_ParentClosed ==
    \A i \in StreamIds :
        streams[i].parent # 0 => streams[streams[i].parent].closed

\* C4: Terminated implies Closed for every stream, and the stream a
\* construction or derivation has just returned is Open.
C4_TerminatedImpliesClosed ==
    /\ \A i \in StreamIds : streams[i].terminated => streams[i].closed
    /\ last.ret # 0 => (~Returned.closed /\ ~Returned.terminated)

\* C4 witness: a stream is terminated while another has just been returned.
C4_Witness ==
    /\ \E i \in StreamIds : streams[i].terminated
    /\ last.ret # 0
    /\ last.op \in IntermediateOps

\* The stream returned by the last intermediate operation is Open, over the
\* receiver's source, and its pipeline is the receiver's former pipeline
\* followed by the one operator this call created.
ChildExtendsReceiver ==
    LET before == Pipeline(mem, last.pre)
        now    == Pipeline(mem, Returned)
    IN  /\ ~Returned.closed /\ ~Returned.terminated
        /\ Returned.supplier = last.pre.supplier
        /\ Len(now) = Len(before) + 1
        /\ SubSeq(now, 1, Len(before)) = before
        /\ now[Len(now)].name = last.op
        /\ now[Len(now)].by = last.ret

\* An intermediate operation with a legal argument on an Open stream returns.
OpenReceiverReturns ==
    (last.op \in IntermediateOps /\ Valid(last.pre) = "ok" /\ last.n >= 0) =>
        last.result = "ok"

\* C5 as stated: the receiver differs from what it was only in being Closed.
C5_OnlyClosedChanges ==
    /\ OpenReceiverReturns
    /\ (last.op \in IntermediateOps /\ last.result = "ok") =>
           /\ ChildExtendsReceiver
           /\ Receiver.closed
           /\ Receiver.terminated = last.pre.terminated
           /\ Receiver.supplier = last.pre.supplier
           /\ Pipeline(mem, Receiver) = Pipeline(mem, last.pre)

\* C5 amended: the receiver becomes Closed, its source reference and
\* Terminated flag stay as they were, and its pipeline stays as it was
\* except that a sequentialStream releases its operator list.
C5_ClosedAndReleased ==
    /\ OpenReceiverReturns
    /\ (last.op \in IntermediateOps /\ last.result = "ok") =>
           /\ ChildExtendsReceiver
           /\ Receiver.closed
           /\ Receiver.terminated = last.pre.terminated
           /\ Receiver.supplier = last.pre.supplier
           /\ IF Receiver.kind = "sequentialStream"
              THEN Pipeline(mem, Receiver) = <<>>
              ELSE Pipeline(mem, Receiver) = Pipeline(mem, last.pre)

\* C5 witness: a sequentialStream that already had an operator was derived
\* from.
C5_Witness ==
    /\ last.op \in IntermediateOps
    /\ last.result = "ok"
    /\ last.pre.kind = "sequentialStream"
    /\ Len(Pipeline(mem, last.pre)) > 0

\* C6: every operator in a stream's pipeline was appended while deriving
\* that stream or one of its ancestors: no operator appended for another
\* stream is visible in it or has replaced one of its own.
C6_NoAliasing ==
    \A i \in StreamIds :
        \A k \in 1..Len(Pipeline(mem, streams[i])) :
            Pipeline(mem, streams[i])[k].by \in Lineage(i)

\* ------------------------------------------------- concurrent execution
\* The run has returned its result to the caller.
RunReturned == last.op = "Collect" /\ last.result = "ok"

Min(a, b) == IF a < b THEN a ELSE b

\* The stages of the running pipeline that hold operator name.
StagesOf(name) == {k \in 1..Len(RunPipeline) : RunPipeline[k].name = name}

\* The value the element at source position pos has when it stands before
\* stage k: the Maps in front of k have been applied to it.
RECURSIVE ValueAt(_, _)
ValueAt(k, pos) ==
    IF k = 1 THEN run.data[pos]
    ELSE IF RunPipeline[k - 1].name = "Map"
    THEN Fun(RunPipeline[k - 1].fn, ValueAt(k - 1, pos))
    ELSE ValueAt(k - 1, pos)

\* The equivalence classes, under the equality of the Distinct at stage k,
\* of a set of source positions.
Classes(k, positions) ==
    {ClassOf(RunPipeline[k].fn, ValueAt(k, pos)) : pos \in positions}

\* Worker w has read the state of the operator it is in and has not yet
\* written it back.
InUpdate(w) == wk[w].pc \in {"inc", "store"}

\* C7: when a concurrent run has returned, every Limit(n) in its pipeline
\* has accepted, over all workers, exactly min(n, elements that reached it),
\* and a pipeline with a Limit(0) has collected nothing.
C7_LimitExact ==
    RunReturned =>
        \A k \in StagesOf("Limit") :
            /\ Cardinality(accepted[k])
                   = Min(RunPipeline[k].n, Cardinality(reached[k]))
            /\ RunPipeline[k].n = 0 => results = <<>>

\* C8: when a run of a concurrentStream has returned, every Distinct in
\* its pipeline has accepted exactly one element of each equivalence class
\* of the elements that reached it.
C8_DistinctOnePerClass ==
    (RunReturned /\ Tip.kind = "concurrentStream") =>
        \A k \in StagesOf("Distinct") :
            /\ Classes(k, accepted[k]) = Classes(k, reached[k])
            /\ Cardinality(accepted[k]) = Cardinality(Classes(k, reached[k]))

\* C9: when a concurrent run has returned, every Skip(n) in its pipeline
\* has rejected, over all workers, exactly min(n, elements that reached it)
\* and accepted all the others.
C9_SkipExact ==
    RunReturned =>
        \A k \in StagesOf("Skip") :
            /\ accepted[k] \subseteq reached[k]
            /\ Cardinality(reached[k] \ accepted[k])
                   = Min(RunPipeline[k].n, Cardinality(reached[k]))

\* C10: no two workers are inside the state update of the same stateful
\* operator at the same time.
C10_MutualExclusion ==
    \A v, w \in Workers :
        (v # w /\ InUpdate(v) /\ InUpdate(w)) => wk[v].stage # wk[w].stage

\* What the mutex of part_013 and of a stream made parallel before the
\* operator was derived does give: under it the three operators are exact
\* and the updates exclude each other.
SynchronizedOperatorsExact ==
    RunReturned =>
        \A k \in 1..Len(RunPipeline) :
            RunPipeline[k].sync =>
                CASE RunPipeline[k].name = "Limit" ->
                        Cardinality(accepted[k])
                            = Min(RunPipeline[k].n, Cardinality(reached[k]))
                  [] RunPipeline[k].name = "Skip" ->
                        Cardinality(reached[k] \ accepted[k])
                            = Min(RunPipeline[k].n, Cardinality(reached[k]))
                  [] OTHER ->
                        /\ Classes(k, accepted[k]) = Classes(k, reached[k])
                        /\ Cardinality(accepted[k])
                               = Cardinality(Classes(k, reached[k]))

SynchronizedUpdatesExclude ==
    \A v, w \in Workers :
        (v # w /\ InUpdate(v) /\ InUpdate(w) /\ wk[v].stage = wk[w].stage)
            => ~RunPipeline[wk[w].stage].sync

\* -------------------------------------------------- sequential execution
\* The sequential terminal operation has returned.
SeqReturned == last.result = "ok"

\* The stages of the sequential pipeline that hold operator name.
SeqStagesOf(name) ==
    {k \in 1..Len(run.pipeline) : run.pipeline[k].name = name}

\* The source positions that have reached stage k so far, in encounter
\* order: all positions read for the first stage, what the stage in front
\* accepted for the others.
Upstream(k) ==
    IF k = 1 THEN Range(1, run.idx - 1) ELSE accepted[k - 1]

\* C18: a sequential Reduce(f) returns (left fold of f over the survivors in
\* encounter order, true) when at least one element survives, wherever in
\* the source the survivors are, and (zero value, false) when none does.
C18_ReduceLeftFold ==
    (SeqReturned /\ last.op = "Reduce") =>
        last.ret = IF results = <<>>
                   THEN [x |-> ZeroValue, ok |-> FALSE]
                   ELSE [x |-> LeftFold(run.f, results), ok |-> TRUE]

\* C19: at every point of a sequential run a Limit(n) has accepted exactly
\* the first min(n, reached) elements that reached it, in encounter order,
\* its counter counts those and nothing else, and only elements accepted by
\* the stage in front of it have reached it.
C19_LimitFirstN ==
    \A k \in SeqStagesOf("Limit") :
        /\ reached[k] = Upstream(k)
        /\ accepted[k] = SubSeq(reached[k], 1,
                                Min(run.pipeline[k].n, Len(reached[k])))
        /\ counter[k] = Len(accepted[k])

\* A run has returned in which a Limit behind another operator turned away
\* an element after accepting one, and the operator in front had rejected
\* an element too.
C19_Witness ==
    /\ SeqReturned
    /\ \E k \in SeqStagesOf("Limit") :
          /\ k > 1
          /\ Len(reached[1]) > Len(reached[k])
          /\ Len(reached[k]) > Len(accepted[k])
          /\ Len(accepted[k]) >= 1

\* C20: at every point of a sequential run a Skip(n) has rejected exactly
\* the first min(n, reached) elements that reached it and accepted every
\* later one, in encounter order.
C20_SkipFirstN ==
    \A k \in SeqStagesOf("Skip") :
        /\ reached[k] = Upstream(k)
        /\ accepted[k] = SubSeq(reached[k],
                                Min(run.pipeline[k].n, Len(reached[k])) + 1,
                                Len(reached[k]))
        /\ counter[k] = Min(run.pipeline[k].n, Len(reached[k]))

\* A run has returned in which a Skip(n), n >= 1, rejected n elements and
\* accepted a later one.
C20_Witness ==
    /\ SeqReturned
    /\ \E k \in SeqStagesOf("Skip") :
          /\ run.pipeline[k].n >= 1
          /\ Len(reached[k]) > run.pipeline[k].n
          /\ Len(accepted[k]) >= 1

\* --------------------------------------------------------- scatter.go
\* The workers between `limiter <- struct{}{}` and `<-limiter`: they hold
\* an admission slot and run, or have run, the pipeline on their partition.
Admitted ==
    {w \in Workers : wk[w].pc \notin {"admit", "done"}}

\* C11: at every instant of a concurrent terminal operation at most C
\* workers, C the configured concurrency, are past admission, whatever the
\* number of chunks.
C11_AdmissionBound ==
    /\ Cardinality(Admitted) <= Tip.maxRoutines
    /\ slots = Cardinality(Admitted)

\* More chunks were dispatched than C, C workers are past admission and
\* another one is waiting for a slot.
C11_Witness ==
    /\ Len(run.chunks) > Tip.maxRoutines
    /\ Cardinality(Admitted) = Tip.maxRoutines
    /\ \E w \in Workers : wk[w].pc = "admit"
    /\ \E w \in Workers : wk[w].pc \in {"next", "lock", "load", "inc", "store", "leave"}

\* C12: every concurrent terminal operation over a finite source returns.
C12_RunsToCompletion == <>RunReturned

\* In scatter.go the hand-off itself always completes: every dispatched
\* worker finishes, every partial result is received and the operation
\* returns.
ScatterRunsToCompletion ==
    <>[](/\ run.pc = "returned"
         /\ run.received = Len(run.chunks)
         /\ \A w \in Workers : wk[w].pc = "done")

\* The scatter operation has returned.
ScatterReturned == run.pc = "returned"

\* How often v occurs in sequence s.
Occurrences(s, v) == Cardinality({i \in DOMAIN s : s[i] = v})

\* Two sequences hold the same elements, each as often in one as in the
\* other.
SameElements(s, u) ==
    \A v \in {s[i] : i \in DOMAIN s} \cup {u[i] : i \in DOMAIN u} :
        Occurrences(s, v) = Occurrences(u, v)

\* The pipeline of the running stream has no Limit, Skip or Distinct.
StatelessPipeline ==
    \A k \in 1..Len(RunPipeline) : RunPipeline[k].name \notin StatefulOps

ParReturned == last.op \in {"Count", "Reduce"} /\ last.result = "ok"

\* What the sequential Count() / Reduce(f) of stream.go returns for pipeline
\* p over data.
SequentialValue(op, p, data, f) ==
    IF op = "Count" THEN Len(SeqCollect(p, data))
    ELSE LET r == SliceReduce(p, data, 1, [k \in 1..Len(p) |-> 0],
                              [k \in 1..Len(p) |-> {}], f, NoAcc)
         IN  [x |-> r.acc.x, ok |-> r.acc.valid]

\* C14: for a pipeline with neither Limit nor Skip, Count() and Reduce(f),
\* f associative and commutative, return under parallel execution what
\* they return under sequential execution of the same source and pipeline.
C14_SameAsSequential ==
    (ParReturned /\ StagesOf("Limit") \cup StagesOf("Skip") = {}) =>
        last.ret = SequentialValue(last.op, RunPipeline, run.data, run.f)

\* The part of C14 the code keeps: Count() agrees, and so does Reduce(f)
\* when the pipeline holds no operator with state.
ParallelAgreesWhereStateless ==
    (ParReturned /\ (last.op = "Count" \/ StatelessPipeline)
                 /\ StagesOf("Limit") \cup StagesOf("Skip") = {}) =>
        last.ret = SequentialValue(last.op, RunPipeline, run.data, run.f)

\* Worker w has taken its slot and is running, or has run, the pipeline on
\* its partition.
Started(w) == wk[w].pc # "admit"

\* C15: the Source is fully drained before the first worker starts
\* executing: while a worker runs, HasNext() is false.
C15_DrainedBeforeWorkers ==
    \A w \in Workers : Started(w) => ~HasNext

\* The part of C15 the code keeps: the position in the Source moves only
\* in the coordinator's drain loop.
SourceReadByCoordinatorOnly ==
    [][(run.next' # run.next) => (run.pc = "drain" /\ run'.pc = "drain"
                                    /\ wk' = wk)]_vars

\* Worker w is suspended: it has not finished and has no step to take.
Suspended(w) == wk[w].pc # "done" /\ ~ENABLED WorkerStep(w)

\* The coordinator is suspended: it has not returned and has no step to
\* take.
CoordinatorSuspended == run.pc # "returned" /\ ~ENABLED CoordinatorStep

\* The coordinator waits for dispatched workers: it is in the gather loop
\* with partial results outstanding.
WaitsForWorkers == run.pc = "gather" /\ run.received < Len(run.chunks)

\* C16: a worker is suspended only while acquiring its admission slot, and
\* the coordinator only while waiting for the dispatched workers.
C16_OnlyAdmissionSuspends ==
    /\ \A w \in Workers : Suspended(w) => wk[w].pc = "admit"
    /\ CoordinatorSuspended => WaitsForWorkers

\* C16 as amended: a worker is suspended only while acquiring its admission
\* slot (none is free), while locking the mutex of a stateful operator
\* (another worker holds it) or while handing over its partial result (the
\* coordinator is still reading the source); the coordinator is suspended
\* only in the gather loop, never while it reads the source and dispatches.
C16_SuspensionPoints ==
    /\ \A w \in Workers : Suspended(w) =>
          \/ wk[w].pc = "admit" /\ slots >= run.limit
          \/ wk[w].pc = "lock" /\ mutex[wk[w].stage] \notin {0, w}
          \/ wk[w].pc = "send" /\ run.pc = "drain"
    /\ CoordinatorSuspended => WaitsForWorkers

\* A worker holding the only slot is suspended in its hand-over while the
\* coordinator still reads the source, and a second worker is suspended
\* waiting for that slot.
C16_Witness ==
    \E v, w \in Workers :
        /\ Suspended(v) /\ wk[v].pc = "send"
        /\ Suspended(w) /\ wk[w].pc = "admit"
        /\ run.pc = "drain"

\* In some state a worker is suspended at the mutex of an operator.
SuspendedAtMutex ==
    \E w \in Workers : Suspended(w) /\ wk[w].pc = "lock"

\* The chunks one after the other.
RECURSIVE Flatten(_)
Flatten(chunks) ==
    IF chunks = <<>> THEN <<>>
    ELSE Flatten(SubSeq(chunks, 1, Len(chunks) - 1)) \o chunks[Len(chunks)]

\* How many partitions hold source position pos.
Holders(chunks, pos) ==
    Cardinality({j \in DOMAIN chunks : \E i \in DOMAIN chunks[j] : chunks[j][i] = pos})

\* C17: once a drained source of length L is cut, every position is in
\* exactly one partition, each partition is a contiguous run, the
\* partitions follow one another in source order and cover 1..L; scatter
\* and Partition make ceil(L / partitionSize) of them; and Count() of the
\* unfiltered source returns L.
C17_ExactCover ==
    /\ run.pc \in {"cut", "returned"} =>
          /\ \A pos \in 1..run.L : Holders(run.chunks, pos) = 1
          /\ \A j \in DOMAIN run.chunks : \A i \in 1..(Len(run.chunks[j]) - 1) :
                run.chunks[j][i + 1] = run.chunks[j][i] + 1
          /\ Flatten(run.chunks) = Range(1, run.L)
          /\ run.strategy = "scatter" => Len(run.chunks) = CeilDiv(run.L, run.n)
          /\ run.strategy = "partition" =>
                Len(run.chunks) = IF run.L = 0 THEN 0
                                  ELSE CeilDiv(run.L, CeilDiv(run.L, run.n))
    /\ run.pc = "returned" => last.ret = run.L

\* Count() has returned 7 for a source of 7 elements cut for concurrency 3,
\* the last partition holding the remainder.
C17_Witness ==
    /\ run.pc = "returned"
    /\ run.L = 7 /\ run.n = 3 /\ run.strategy = "partition"
    /\ Len(run.chunks) = 3
    /\ Len(run.chunks[3]) = 1
    /\ last.ret = 7

\* The partitions the drain loop of scatterGather dispatches are those of
\* ScatterChunks.
DrainLoopCutsAsScatterChunks ==
    run.pc \in {"gather", "returned"} =>
        run.chunks = ScatterChunks(Len(run.data), run.partitionSize)

\* The values a sequence holds.
Elements(s) == {s[i] : i \in DOMAIN s}

\* C23: executing the optimizer's output accepts the same set of elements
\* as executing the pipeline as it was declared.
C23_SortKeepsAcceptedSet ==
    run.pc = "collected" =>
        Elements(last.ret) = Elements(SeqCollect(run.operators, run.data))

\* C24: the optimizer is idempotent: sorting the sorted operators leaves
\* their order as it is.
C24_SortIdempotent ==
    run.pc = "resorted" => run.twice = run.sorted

\* Positions a..b of p are a maximal run of operators whose adjacent pairs
\* all commute.
MaximalRun(p, a, b) ==
    /\ a < b
    /\ \A k \in a..(b - 1) : Commutative(p[k], p[k + 1])
    /\ a = 1 \/ ~Commutative(p[a - 1], p[a])
    /\ b = Len(p) \/ ~Commutative(p[b], p[b + 1])

\* Position k of p commutes with neither neighbour.
OutsideRuns(p, k) ==
    /\ k = 1 \/ ~Commutative(p[k - 1], p[k])
    /\ k = Len(p) \/ ~Commutative(p[k], p[k + 1])

\* Where in p the operator o, known by the call that made it, stands.
IndexIn(p, o) == CHOOSE k \in 1..Len(p) : p[k].by = o.by

\* C25: Sort returns a permutation of its input in which every maximal run
\* of commuting neighbours is sorted by ascending cost, operators of equal
\* cost in their original order, and every operator outside such a run is
\* where it was.
C25_RunsStablySorted ==
    run.pc # "built" =>
        LET p == run.operators
            q == run.sorted
        IN  /\ Len(q) = Len(p)
            /\ \A a, b \in 1..Len(p) : MaximalRun(p, a, b) =>
                  /\ {q[k] : k \in a..b} = {p[k] : k \in a..b}
                  /\ \A i, j \in a..b : i < j =>
                        /\ Cost(q[i]) <= Cost(q[j])
                        /\ Cost(q[i]) = Cost(q[j]) =>
                              IndexIn(p, q[i]) < IndexIn(p, q[j])
            /\ \A k \in 1..Len(p) : OutsideRuns(p, k) => q[k] = p[k]

\* Sort has reordered a run that holds two operators of equal cost, next
\* to an operator outside the run.
C25_Witness ==
    /\ run.pc = "sorted"
    /\ run.sorted # run.operators
    /\ \E a, b \in 1..Len(run.operators) :
          /\ MaximalRun(run.operators, a, b)
          /\ \E i, j \in a..b :
                i < j /\ Cost(run.operators[i]) = Cost(run.operators[j])
    /\ \E k \in 1..Len(run.operators) : OutsideRuns(run.operators, k)

\* C21: a sequential Collect() returns exactly the elements that survive
\* the pipeline the stream was built with, each once, in source encounter
\* order.
C21_SurvivorsInOrder ==
    run.pc = "collected" => last.ret = SeqCollect(run.operators, run.data)

\* C21 on the engines that run the operators in the order they were
\* declared: the slice engine and the pull engine return the survivors in
\* encounter order.
DeclaredOrderEnginesCollectSurvivors ==
    (SeqReturned /\ last.op = "Collect") =>
        last.ret = SeqCollect(run.pipeline, run.data)

\* The partition that holds source position pos.
ChunkOf(pos) ==
    CHOOSE w \in Workers : \E i \in DOMAIN run.chunks[w] : run.chunks[w][i] = pos

\* In the sequence of positions s, the positions of one partition are in
\* source order.
OrderedWithinChunks(s) ==
    \A i, j \in DOMAIN s :
        (i < j /\ ChunkOf(s[i]) = ChunkOf(s[j])) => s[i] < s[j]

\* In the sequence of positions s, the positions of one partition stand
\* together.
ChunksAreBlocks(s) ==
    \A i, j, k \in DOMAIN s :
        (i < j /\ j < k /\ ChunkOf(s[i]) = ChunkOf(s[k])) =>
            ChunkOf(s[j]) = ChunkOf(s[i])

\* The output holds the elements at the positions recorded for it, as the
\* pipeline's Maps leave them.
OutputOfPositions ==
    last.op \in {"Collect", "ForEach"} =>
        /\ Len(results) = Len(accepted)
        /\ \A i \in DOMAIN results :
              results[i] = ValueAt(Len(RunPipeline) + 1, accepted[i])

CollectBlocksOutOfOrder ==
    /\ last.result = "ok"
    /\ last.op = "Collect"
    /\ \E i, j \in DOMAIN accepted : i < j /\ accepted[i] > accepted[j]

\* Stage k and the stage behind it hold the same Distinct.
DistinctTwice(k) ==
    /\ k < Len(run.pipeline)
    /\ run.pipeline[k].name = "Distinct"
    /\ run.pipeline[k + 1].name = "Distinct"
    /\ run.pipeline[k + 1].fn = run.pipeline[k].fn

\* Pipeline p without its stage k.
WithoutStage(p, k) == SubSeq(p, 1, k - 1) \o SubSeq(p, k + 1, Len(p))

\* C26: a pipeline with the same Distinct twice in a row accepts the same
\* set of elements as the pipeline with that Distinct once: the second
\* Distinct rejects nothing the first one let through.
C26_DistinctIdempotent ==
    \A k \in 1..Len(run.pipeline) : (run.engine \in Engines /\ DistinctTwice(k)) =>
        /\ accepted[k + 1] = reached[k + 1]
        /\ SeqReturned =>
              Elements(results) =
                  Elements(SeqCollect(WithoutStage(run.pipeline, k + 1), run.data))

\* A run of the pull engine has returned in which the first of two equal
\* Distincts turned elements away and the second one, holding a set of its
\* own, tested what was left.
C26_Witness ==
    /\ SeqReturned
    /\ run.engine = "pull"
    /\ DistinctTwice(1)
    /\ ~run.pipeline[2].ident
    /\ Len(accepted[1]) < Len(reached[1])
    /\ Len(reached[2]) >= 2

\* The last call was an intermediate operation that returned a stream.
Derived == last.op \in IntermediateOps /\ last.result = "ok"

\* The provenance rule for the stream the last call returned: none after
\* Map, the receiver's after Filter, Skip, Limit and Peek; and a Distinct
\* derived from a stream without provenance tests every element.
ProvenanceRule ==
    /\ last.op = "Map" => ~Returned.distinct
    /\ last.op \in {"Filter", "Skip", "Limit", "Peek"} =>
          Returned.distinct = last.pre.distinct
    /\ (last.op = "Distinct" /\ Len(Pipeline(mem, last.pre)) > 0
           /\ Pipeline(mem, last.pre)[Len(Pipeline(mem, last.pre))].name = "Map") =>
          ~Pipeline(mem, Returned)[Len(Pipeline(mem, Returned))].ident

\* C27: the stream returned by Map carries no "already distinct"
\* provenance, so a Distinct derived after a Map de-duplicates; the streams
\* returned by Filter, Skip, Limit and Peek carry their parent's flag.
C27_MapClearsProvenance ==
    Derived => ProvenanceRule

\* The rule is kept by the sequentialStream and the concurrentStream.
ProvenanceRuleOutsideStreamGo ==
    (Derived /\ last.pre.kind # "stream") => ProvenanceRule

\* The stages of the running pipeline that hold a Peek behind operators
\* without state.
PeekStages ==
    {k \in StagesOf("Peek") : \A h \in 1..(k - 1) : ~HasState(RunPipeline[h])}

\* The element at source position pos survives the operators in front of
\* stage k, none of which holds state.
SurvivesUpstream(k, pos) ==
    Advance(SubSeq(RunPipeline, 1, k - 1), 1, run.data[pos]).keep

\* C29: when a terminal operation has returned, a Peek action was invoked
\* exactly once for each element that survived the operators upstream of
\* it, and never for an element rejected upstream.
C29_PeekOncePerSurvivor ==
    last.result = "ok" =>
        \A k \in PeekStages : \A pos \in 1..Len(run.data) :
            Occurrences(reached[k], pos) = IF SurvivesUpstream(k, pos) THEN 1 ELSE 0

\* The part of C29 the code keeps: ForEach, Count and Collect invoke the
\* action once per upstream survivor, and no operation ever invokes it for
\* an element rejected upstream.
PeekOnceExceptParallelReduce ==
    \A k \in PeekStages : \A pos \in 1..Len(run.data) :
        /\ ~SurvivesUpstream(k, pos) => Occurrences(reached[k], pos) = 0
        /\ (last.result = "ok" /\ last.op # "Reduce" /\ SurvivesUpstream(k, pos)) =>
              Occurrences(reached[k], pos) = 1

\* The value the element at source position pos has when it enters stage k
\* of the pipeline of the sequential machine.
RECURSIVE SeqValueAt(_, _)
SeqValueAt(k, pos) ==
    IF k = 1 THEN run.data[pos]
    ELSE IF run.pipeline[k - 1].name = "Map"
    THEN Fun(run.pipeline[k - 1].fn, SeqValueAt(k - 1, pos))
    ELSE SeqValueAt(k - 1, pos)

\* The elements operator k was applied to are those the operator in front
\* of it kept, in the order they were read.
AppliedToUpstreamSurvivors(k) ==
    reached[k] = IF k = 1 THEN [i \in 1..(run.idx - 1) |-> i]
                 ELSE accepted[k - 1]

\* The counter or set of operator k is what the elements it was applied to
\* make it.
StateFromApplied(k) ==
    LET operator == run.pipeline[k]
    IN  /\ operator.name = "Limit" => counter[k] = Len(accepted[k])
        /\ operator.name = "Skip" =>
              counter[k] = Len(reached[k]) - Len(accepted[k])
        /\ (operator.name = "Distinct" /\ ~operator.ident) =>
              seen[k] = {ClassOf(operator.fn, SeqValueAt(k, pos)) :
                            pos \in Elements(reached[k])}
        /\ operator.name \notin {"Limit", "Skip", "Distinct"} =>
              (counter[k] = 0 /\ seen[k] = {})
        /\ operator.name = "Peek" => accepted[k] = reached[k]

\* C28: the operators are applied to an element in pipeline order up to
\* the first that rejects it; an operator behind that one is not applied to
\* the element, so its counter, its set or its Peek action is not affected.
C28_StopsAtFirstRejection ==
    \A k \in 1..Len(run.pipeline) :
        AppliedToUpstreamSurvivors(k) /\ StateFromApplied(k)

\* An element was rejected by the first operator of a pipeline whose second
\* operator holds state or is a Peek.
C28_Witness ==
    /\ Len(run.pipeline) = 2
    /\ run.pipeline[2].name \in {"Limit", "Peek"}
    /\ Len(reached[1]) > Len(accepted[1])
    /\ Len(reached[2]) > 0
    /\ last.result = "ok"

\* C30: Skip called with a negative count on an Open stream fails with
\* IllegalArgument: no stream is returned and no stream changes.
C30_NegativeSkipRejected ==
    (last.op = "Skip" /\ last.n < 0 /\ Valid(last.pre) = "ok") =>
        /\ last.result = "IllegalArgument"
        /\ last.ret = 0
        /\ streams[last.recv] = last.pre

\* What the code keeps of C30: the streams of sequential_stream.go 1-200 and
\* of part_013 reject a negative Skip, and every kind rejects a negative
\* Limit.
NegativeCountRejectedWhereChecked ==
    /\ (last.op = "Skip" /\ last.n < 0 /\ Valid(last.pre) = "ok"
            /\ last.pre.kind # "stream") =>
          (last.result = "IllegalArgument" /\ streams[last.recv] = last.pre)
    /\ (last.op = "Limit" /\ last.n < 0 /\ Valid(last.pre) = "ok") =>
          (last.result = "IllegalArgument" /\ streams[last.recv] = last.pre)

\* C31: Limit called with a negative count on an Open stream fails with
\* IllegalArgument at the call and returns no stream.
C31_NegativeLimitRejected ==
    (last.op = "Limit" /\ last.n < 0 /\ Valid(last.pre) = "ok") =>
        /\ last.result = "IllegalArgument"
        /\ last.ret = 0

\* Limit(-1) was called on an Open stream of stream.go and failed.
C31_Witness ==
    /\ last.op = "Limit"
    /\ last.n < 0
    /\ Valid(last.pre) = "ok"
    /\ last.result = "IllegalArgument"
    /\ last.pre.kind = "stream"

\* A configuration the constructor is to accept.
LegalConfig(concurrency, partitionSize) ==
    concurrency >= 1 /\ partitionSize >= 1

\* C32: constructing a stream with concurrency < 1 or with a non-positive
\* partition size fails with IllegalConfig and returns no stream, and no
\* terminal operation ever runs on a stream with such a configuration.
C32_IllegalConfigRejected ==
    /\ (last.op = "ConcurrentFromSlice"
            /\ ~LegalConfig(run.concurrency, run.partitionSize)) =>
          (last.result = "IllegalConfig" /\ last.ret = 0 /\ streams = <<>>)
    /\ (last.op \in TerminalOps /\ last.result = "ok") =>
          LegalConfig(last.pre.maxRoutines, last.pre.partitionSize)

\* What the constructor does keep: a legal configuration is accepted and
\* stored, and every stream derived from it carries the same configuration.
ConfigStoredAsGiven ==
    \A i \in 1..Len(streams) :
        /\ streams[i].maxRoutines = run.concurrency
        /\ streams[i].partitionSize = run.partitionSize

\* C33: concurrency 1 is a legal configuration: Parallelize(1) does not
\* fail with IllegalConfig, and the stream it configures runs as the
\* sequential one does.
C33_ConcurrencyOneLegal ==
    (last.op = "Parallelize" /\ last.n = 1) =>
        /\ last.result = "ok"
        /\ ~Returned.parallel

\* The second half of C33 on the one engine that accepts concurrency 1, the
\* concurrentStream of part_013: Collect() with concurrency 1 returns what
\* the sequential Collect() returns, in the same order.
ConcurrencyOneIsSequential ==
    (ScatterReturned /\ last.op = "Collect" /\ run.limit = 1) =>
        last.ret = SeqCollect(RunPipeline, run.data)

\* The source has produced every element it captured.
Exhausted == run.initialized /\ run.i > Len(run.data)

\* The element the next Next() is to return, none when there is none.
Upcoming ==
    LET data == IF run.initialized THEN run.data ELSE run.backing
    IN  IF run.i <= Len(data) THEN <<data[run.i]>> ELSE <<>>

\* C34: HasNext() consumes no element and leaves the element the next
\* Next() returns as it was; once the source is exhausted it stays
\* exhausted, HasNext() answers false and Next() fails with NoNextElement.
C34_HasNextRepeatable ==
    [][/\ last'.op = "HasNext" =>
            /\ results' = results
            /\ run'.i = run.i
            /\ Upcoming' = Upcoming
            /\ last'.ret = (Upcoming # <<>>)
       /\ Exhausted =>
            /\ Exhausted'
            /\ last'.op = "HasNext" => last'.ret = FALSE
            /\ last'.op = "Next" =>
                  (last'.result = "NoNextElement" /\ results' = results)]_vars

\* Next() failed with NoNextElement on a source that had produced all its
\* elements, HasNext() having been called before.
C34_Witness ==
    /\ last.op = "Next"
    /\ last.result = "NoNextElement"
    /\ Len(results) = 2
    /\ Exhausted

\* C35: the supplier of a slice source is not called before the first
\* HasNext() or Next(), in particular not when streams are constructed or
\* derived, and is called once; the slice as the program left it before the
\* first pull is what the source produces.
C35_SupplierDeferredOnce ==
    [][/\ run.calls = IF run.initialized THEN 1 ELSE 0
       /\ run'.calls = IF run'.initialized THEN 1 ELSE 0
       /\ last'.op \notin {"HasNext", "Next"} => run'.calls = run.calls
       /\ (~run.initialized /\ run'.initialized) => run'.data = run.backing
       /\ run.initialized => run'.data = run.data
       /\ results' = SubSeq(run'.data, 1, run'.i - 1)]_vars

\* The program changed its slice after the stream was constructed and
\* derived from, and the source then produced the changed slice.
C35_Witness ==
    /\ run.edits > 0
    /\ Len(streams) > 1
    /\ run.initialized
    /\ run.calls = 1
    /\ Len(results) > 0
    /\ results = run.backing
    /\ results[Len(results)] >= 10

\* The Limit the terminal operation stops at has let its n elements
\* through.
LimitFull ==
    \E k \in 1..Len(run.pipeline) :
        /\ run.pipeline[k].name = "Limit"
        /\ counter[k] = run.pipeline[k].n

\* C36: over an infinite source a terminal operation of the pull engine
\* whose pipeline holds a Limit(n) terminates.
C36_LimitTerminates == <>(last.result = "ok")

\* What Collect() and Count() make of the values the first Limit let
\* through: they go through the operators behind it.
BuiltFromAccepted ==
    LET k == FirstLimit(run.pipeline)
        behind == SubSeq(run.pipeline, k + 1, Len(run.pipeline))
        out == SeqCollect(behind, accepted)
    IN  last.ret = IF last.op = "Count" THEN Len(out) ELSE out

\* C36 as amended: once a Limit has let its n elements through, the engine
\* pulls no further element from the source, and the terminal operation
\* returns the result built from the elements the Limit accepted; until
\* then the pipeline has at most n of them.
C36_StopsOnceLimitFull ==
    /\ [](LimitFull => <>(last.result = "ok"))
    /\ [][LimitFull => run'.phase = run.phase]_vars
    /\ [](last.result = "ok" => (LimitFull /\ BuiltFromAccepted))

\* Collect() over the infinite source has returned the two elements that
\* Limit(2) accepted behind a Filter.
C36_Witness ==
    /\ last.result = "ok"
    /\ last.op = "Collect"
    /\ Len(run.pipeline) = 2
    /\ run.pipeline[1].name = "Filter"
    /\ run.pipeline[2].n = 2
    /\ last.ret = <<2, 2>>

\* The stages of the sequential pipeline whose Distinct was replaced by the
\* identity because the stream it was derived from carried the flag.
ShortCircuited ==
    {k \in 1..Len(run.pipeline) :
        run.pipeline[k].name = "Distinct" /\ run.pipeline[k].ident}

\* C37: the elements that reach a Distinct replaced by the identity are
\* pairwise distinct under that Distinct's own equality, so the identity
\* accepts what the Distinct run in full would accept.
C37_ShortCircuitPreserves ==
    \A k \in ShortCircuited :
        \A i, j \in DOMAIN reached[k] :
            i # j => ClassOf(run.pipeline[k].fn, SeqValueAt(k, reached[k][i]))
                        # ClassOf(run.pipeline[k].fn, SeqValueAt(k, reached[k][j]))

\* What the flag does guarantee: behind a Distinct with the same equality a
\* Distinct replaced by the identity only meets distinct elements.
ShortCircuitSameEquality ==
    \A k \in ShortCircuited :
        (k > 1 /\ run.pipeline[k - 1].name = "Distinct"
               /\ run.pipeline[k - 1].fn = run.pipeline[k].fn) =>
            \A i, j \in DOMAIN reached[k] :
                i # j => ClassOf(run.pipeline[k].fn, SeqValueAt(k, reached[k][i]))
                            # ClassOf(run.pipeline[k].fn, SeqValueAt(k, reached[k][j]))

\* The survivors of all chunks of the concurrent run, chunk after chunk.
ChunkSurvivors == Flatten([w \in Workers |-> wk[w].out])

Refusals == {"StreamClosed", "StreamTerminated", "IllegalArgument"}

\* C39: a call that fails with StreamClosed, StreamTerminated or
\* IllegalArgument changes no stream and no pipeline; the receiver of a call
\* refused for its argument is Open afterwards as it was before.
C39_FailedCallNoEffect ==
    [][last'.result \in Refusals =>
          /\ streams' = streams
          /\ mem' = mem
          /\ last'.result = "IllegalArgument" =>
                Valid(streams'[last'.recv]) = "ok"]_vars

\* Skip(-1) was refused on an Open stream that was itself derived, and the
\* stream is still Open.
C39_Witness ==
    /\ last.op = "Skip"
    /\ last.result = "IllegalArgument"
    /\ last.recv > 1
    /\ Valid(streams[last.recv]) = "ok"
    /\ streams[last.recv] = last.pre

\* The positions an operator can have in a chain.
NestStages == UNION {1..Len(p) : p \in NestPrograms}

\* The mutexes worker w holds, in the order it locked them.
Held(w) == wk[w].held

\* Worker w stands at mutex.Lock() of an operator.
AtLock(w) == wk[w].pc = "enter" /\ run.pipeline[wk[w].stage].sync

\* C40: in a concurrently executed pipeline with several mutex-guarded
\* stateful operators every worker locks the operators in the same relative
\* order (the operator derived later first), a worker that holds a lock never
\* waits for another worker, every lock that is taken is released again, and
\* the workers all finish.
C40_LocksOrderedAndReleased ==
    /\ [](\A w \in Workers :
            /\ \A i, j \in 1..Len(Held(w)) : i < j => Held(w)[i] > Held(w)[j]
            /\ \A k \in 1..Len(mutex) :
                  mutex[k] = w <=> \E i \in 1..Len(Held(w)) : Held(w)[i] = k
            /\ (Held(w) # <<>> /\ AtLock(w)) => mutex[wk[w].stage] = 0)
    /\ \A k \in NestStages :
          (k <= Len(mutex) /\ mutex[k] # 0) ~> (k <= Len(mutex) /\ mutex[k] = 0)
    /\ <>(last.result = "ok" /\ \A k \in 1..Len(mutex) : mutex[k] = 0)

\* One worker holds the mutexes of two operators while another worker waits
\* at the mutex of the operator derived last.
C40_Witness ==
    \E v, w \in Workers :
        /\ v # w
        /\ Len(Held(v)) >= 2
        /\ AtLock(w)
        /\ Held(w) = <<>>
        /\ mutex[wk[w].stage] = v

\* The closures of part_013 call the input closure first and lock only
\* around their own test: a worker holds one mutex at a time and every
\* mutex that is taken is released again.
OneLockAtATime ==
    /\ [](\A w \in Workers :
            Cardinality({k \in 1..Len(mutex) : mutex[k] = w}) <= 1)
    /\ \A k \in 1..MaxOps :
          (k <= Len(mutex) /\ mutex[k] # 0) ~> (k <= Len(mutex) /\ mutex[k] = 0)

====
